---- MODULE Spec2Model ----
(***************************************************************************)
(* A model of the crawl engine of Policy-Crawler-Pro:                      *)
(*   - PolicyCrawler.crawl_batch / search_all_policies /                   *)
(*     crawl_single_policy and the CrawlProgress data model (SpecCrawl),   *)
(*   - the process-wide file-number counters (SpecCounter),                *)
(*   - TaskService's executor thread against stop_task / pause_task        *)
(*     (SpecTask).                                                         *)
(***************************************************************************)
EXTENDS Integers, Sequences, FiniteSets, TLC

(* ------------------------------ bounds -------------------------------- *)
\* number of configured data sources of a crawl run
MaxSources == 2
\* longest listing one source's crawl_policies returns
MaxListing == 2
\* largest configured max_policy_retries
MaxRetries == 2
\* PolicyCrawler instances allocating file numbers in one process
MaxCrawlers == 2
\* allocation calls made in one run of the process
MaxAllocs == 3
\* longest list of records an executor's search returns
MaxPolicies == 2
\* largest total_count handed to set_stage by a direct caller
MaxTotal == 1
\* most records a direct caller reports to the stages of one progress object
MaxCount == 1
\* latest reading of the clock
MaxClock == 2
\* largest config max_retries of a request method
MaxHttpRetries == 4
\* proxies the provider hands out
MaxProxies == 2
\* largest config session_rotate_interval
MaxInterval == 2
\* largest config retry_delay, in seconds
MaxDelay == 2
\* most label/value pairs in one label row (or table) of a page
MaxPairs == 2

VARIABLES
    \* ---- PolicyCrawler (one instance running crawl_batch) ----
    pc,                 \* position of crawl_batch
    data_sources,       \* config "data_sources": per source its "enabled" flag
    max_policy_retries, \* config "max_policy_retries"
    stop_requested,     \* PolicyCrawler.stop_requested
    progress,           \* PolicyCrawler.progress (a CrawlProgress)
    all_policies,       \* search_all_policies: the merged list
    seen_ids,           \* search_all_policies: ids merged so far
    src_idx,            \* search_all_policies: position in enabled_sources
    rec_idx,            \* crawl_batch: position in all_policies (enumerate from 1)
    retry_count,        \* crawl_single_policy: its retry_count argument
    result_policy,      \* crawl_batch: what crawl_single_policy returned
    \* ---- observations of the run (history, not program state) ----
    crawled,            \* sources whose crawl_policies was called, in order
    src_failed,         \* sources whose crawl_policies raised
    prev_policies,      \* all_policies before the latest source was crawled
    processed,          \* records handed to crawl_single_policy, in order
    attempts,           \* try-body executions for the record in flight
    fetch_log,          \* detail-fetch outcomes for the record in flight
    offered,            \* <<id, source>>: the source's listing held the id
    stop_seen,          \* a loop check of the run found stop_requested set
    \* ---- crawler.py module globals and the output directories ----
    markdown_counter,   \* _markdown_counter
    file_counter,       \* _file_counter
    file_number_lock,   \* _file_number_lock: 0 when free, else the holder
    markdown_dir,       \* per output dir: numeric prefixes of its markdown/*.md
    files_dir,          \* per output dir: numeric prefixes of its files/*
    \* ---- threads calling _get_next_markdown_number / _get_next_file_number ----
    tpc,                \* per crawler: position inside the allocation call
    tkind,              \* per crawler: which of the two functions it is in
    loaded,             \* per crawler: the counter value read by `+= 1`
    output_dir,         \* per crawler: its config.output_dir
    alloc_calls,        \* allocation calls begun so far
    granted,            \* per kind: numbers returned, in lock-acquisition order
    ticket,             \* per crawler: its position in granted[kind]
    \* ---- TaskService and one task's executor thread ----
    task_status,        \* Task.status as committed in the database
    crawler_instances,  \* task_id in TaskService._crawler_instances
    running_tasks,      \* task_id in TaskService._running_tasks
    epc,                \* position of _execute_task
    crawler_local,      \* _execute_task's local `crawler`
    task_local,         \* status of the Task row as the executor last loaded it
    policies_len,       \* len(policies) of the executor's search result
    loop_i,             \* records the executor's loop has finished with
    api_pc,             \* position of the stop_task / pause_task call in progress
    stop_accepted,      \* a stop_task call passed its status test (returns True)
    pause_accepted,     \* a pause_task call passed its status test (returns True)
    detail_crawls,      \* crawl_single_policy calls the executor made
    save_calls,         \* save_policy calls the executor made
    task_end_time,      \* Task.end_time as committed
    error_message,      \* Task.error_message as committed
    exc,                \* str(e) of the exception the inner try caught
    failed_count,       \* the executor's local failed_count
    \* ---- one call of an APIClient request method ----
    call_pc,            \* position of the call
    call_fn,            \* the method called
    max_retries,        \* config max_retries
    retry,              \* the loop variable of `for retry in range(max_retries)`
    http_attempts,      \* session.get calls the call has made
    last_error,         \* how the latest attempt ended
    call_ret,           \* what the call returned
    raised,             \* the exception the latest attempt raised, "none" if none
    file_size,          \* download_file: 1 when save_path exists with size > 0
    session_rotate_interval,    \* config session_rotate_interval
    retry_delay,        \* config retry_delay
    request_count,      \* APIClient.request_count
    session,            \* which session APIClient.session is
    calls_since,        \* request-method calls since the session was last replaced
    current_proxy,      \* APIClient.current_proxy, 0 for None
    used_proxy,         \* the proxy the latest attempt sent its request through
    acquired,           \* the latest attempt got its proxy from the provider
    wait_time,          \* seconds slept after the latest attempt, 0 if none
    \* ---- crawl_single_policy merging a detail page into a record ----
    merge_pc,           \* "fetched" before the merge, "merged" after it
    listed,             \* the record's fields as the listing gave them
    policy_rec,         \* the record's fields
    metadata,           \* detail_result["metadata"]
    \* ---- label/value pairs read off a page ----
    ex_pc,              \* the part of _extract_metadata (or the listing parser) running
    n_pairs,            \* pairs of the current part processed so far
    md,                 \* _extract_metadata's dict `metadata`
    row_pub_date,       \* the listing parser's local pub_date
    last_pair,          \* the label and value processed last
    \* ---- one call of APIClient._clean_content ----
    clean_pc,           \* position of the call
    raw_content,        \* the text passed in
    content,            \* the local `content`; at the end the text returned
    lines,              \* the local `lines`
    line_i,             \* the loop index i, counted from 1
    cleaned_lines,      \* the local `cleaned_lines`
    in_metadata_block,  \* the local of that name
    metadata_block_start,       \* the local of that name
    consecutive_metadata_lines, \* the local of that name
    block_first,        \* position in `lines` of the line that began the block
    removed_lines,      \* positions in `lines` the block rule has removed
    \* ---- one call of PolicyCrawler._update_progress ----
    up_pc,              \* position of the call
    progress_callback,  \* what self.progress_callback is
    kwargs,             \* the keyword arguments of the call
    progress_before,    \* self.progress when the call began
    delivered,          \* what the callback took, "nothing" if nothing
    \* ---- TaskService: one task, its executor threads, the API calls ----
    db_status,          \* the task row's status as committed, "deleted" without a row
    executors,          \* the _execute_task threads started, in order of start
    crawlers,           \* crawlers[k]: stop_requested of the crawler of thread k
    instances,          \* self._crawler_instances.get(task_id), 0 for None
    running,            \* self._running_tasks.get(task_id), 0 for None
    inflight,           \* API calls between two of their steps, by position
    \* ---- crawl_single_policy and the attachments of the record in flight ----
    save_files,         \* config save_files
    discovered,         \* the attachments the record's detail page gave
    handed,             \* what the latest attempt passed to _download_attachments
    \* ---- SchedulerService: one scheduled task ----
    is_enabled,         \* scheduled_task.is_enabled as committed
    job_added,          \* the scheduler holds the task's job
    task_type,          \* scheduled_task.task_type
    trig_pc,            \* position of the _execute_scheduled_task call in progress
    run_record,         \* status of the latest ScheduledTaskRun, "none" if none
    last_run_status,    \* scheduled_task.last_run_status, "none" for None
    crawl_task,         \* status of the crawl Task the latest run started
    waited_time,        \* polls the wait loop has slept through
    result_status,      \* result["status"] of the latest run
    disable_pc,         \* position of the disable_scheduled_task call in progress
    disabled,           \* disable_scheduled_task returned, no enable since
    runs,               \* executions the trigger has started
    \* ---- the label block of a detail page ----
    label_cells,        \* the span texts of mid-1 and mid-3, by part
    value_cells,        \* the span texts of mid-2 and mid-4, by part
    \* ---- the environment ----
    clock               \* what datetime.now(timezone.utc) returns

\* the crawl run without the stop flag
crawlState == <<pc, data_sources, max_policy_retries, progress,
                all_policies, seen_ids, src_idx, rec_idx, retry_count,
                result_policy, crawled, src_failed, prev_policies, processed,
                attempts, fetch_log, offered, stop_seen>>

crawlVars == <<crawlState, stop_requested>>

counterVars == <<markdown_counter, file_counter, file_number_lock,
                 markdown_dir, files_dir>>

allocVars == <<tpc, tkind, loaded, output_dir, alloc_calls, granted, ticket>>

taskVars == <<task_status, crawler_instances, running_tasks, epc,
              crawler_local, task_local, policies_len, loop_i, api_pc,
              stop_accepted, pause_accepted, detail_crawls, save_calls,
              task_end_time, error_message, exc, failed_count>>

retryVars == <<call_pc, call_fn, max_retries, retry, http_attempts,
               last_error, call_ret, raised, file_size,
               session_rotate_interval, retry_delay, request_count, session,
               calls_since, current_proxy, used_proxy, acquired, wait_time>>

mergeVars == <<merge_pc, listed, policy_rec, metadata>>

metaVars == <<ex_pc, n_pairs, md, row_pub_date, last_pair>>

cleanVars == <<clean_pc, raw_content, content, lines, line_i, cleaned_lines,
               in_metadata_block, metadata_block_start,
               consecutive_metadata_lines, block_first, removed_lines>>

callbackVars == <<up_pc, progress_callback, kwargs, progress_before,
                  delivered>>

lifeVars == <<db_status, executors, crawlers, instances, running, inflight>>

attachVars == <<save_files, discovered, handed>>

schedVars == <<is_enabled, job_added, task_type, trig_pc, run_record,
               last_run_status, crawl_task, waited_time, result_status,
               disable_pc, disabled, runs>>

cellVars == <<label_cells, value_cells>>

backendVars == <<lifeVars, attachVars, schedVars, cellVars>>

clientVars == <<retryVars, mergeVars, metaVars, cleanVars, callbackVars,
                backendVars>>

vars == <<crawlVars, counterVars, allocVars, taskVars, clock, clientVars>>

(* ------------------------------ helpers ------------------------------- *)
Range(s) == {s[i] : i \in DOMAIN s}

RECURSIVE SeqsUpTo(_, _)
\* all sequences over S of length at most n
SeqsUpTo(S, n) ==
    IF n = 0 THEN {<<>>}
    ELSE LET shorter == SeqsUpTo(S, n - 1)
         IN  shorter \cup {Append(q, x) : q \in shorter, x \in S}

\* Python's `a or b` on strings
StrOr(a, b) == IF a # "" THEN a ELSE b

(* ------------------------- models.py: Policy -------------------------- *)
\* the dataclass fields the crawl reads; data_source is the index of the
\* source the record came from (Policy._data_source)
Policy(t, l, s, c) ==
    [title |-> t, pub_date |-> "", doc_number |-> "", source |-> s,
     link |-> l, url |-> "", content |-> c, data_source |-> 0]

\* Policy.id: f"{self.title}|{self.link or self.source}"
PolicyId(p) == p.title \o "|" \o StrOr(p.link, p.source)

\* records a listing page can hold
pX  == Policy("X", "u1", "", "")
pXs == Policy("X", "", "u1", "")      \* no link, source only: same id as pX
pY  == Policy("Y", "u2", "", "")
pYc == Policy("Y", "u2", "", "body")  \* content already in the listing
PolicyPool == {pX, pXs, pY, pYc}

\* what MNRSpider.crawl_policies can return for one source
Listings == SeqsUpTo(PolicyPool, MaxListing)

(* ---------------------- models.py: CrawlProgress ---------------------- *)
\* datetime.now(timezone.utc)
Now == clock
\* None, for a time not yet stamped
NoTime == 0

\* CrawlStage(name=..., total_count=...)
CrawlStage(name, total) ==
    [name |-> name, total_count |-> total, completed_count |-> 0,
     failed_count |-> 0, start_time |-> NoTime, end_time |-> NoTime,
     status |-> "pending"]

\* CrawlProgress()
NewCrawlProgress ==
    [total_count |-> 0, completed_count |-> 0, failed_count |-> 0,
     current_policy_id |-> "", current_policy_title |-> "",
     start_time |-> NoTime, end_time |-> NoTime,
     completed_policies |-> <<>>, failed_policies |-> <<>>,
     stages |-> <<>>, current_stage |-> ""]

\* stages[name] = st
PutStage(stages, name, st) ==
    [n \in (DOMAIN stages) \cup {name} |-> IF n = name THEN st ELSE stages[n]]

\* a set_stage that starts the stage afresh on every call
set_stage_Restamp(p, stage_name, total) ==
    LET st0 == IF stage_name \in DOMAIN p.stages
               THEN p.stages[stage_name]
               ELSE CrawlStage(stage_name, total)
    IN  [p EXCEPT !.stages = PutStage(p.stages, stage_name,
                      [st0 EXCEPT !.status = "running", !.start_time = Now]),
                  !.current_stage = stage_name]

\* CrawlProgress.set_stage
set_stage(p, stage_name, total) ==
    LET st0 == IF stage_name \in DOMAIN p.stages
               THEN p.stages[stage_name]
               ELSE CrawlStage(stage_name, total)
        st1 == IF st0.status = "pending"
               THEN [st0 EXCEPT !.status = "running", !.start_time = Now]
               ELSE st0
    IN  [p EXCEPT !.stages = PutStage(p.stages, stage_name, st1),
                  !.current_stage = stage_name]

\* CrawlProgress._update_overall_progress
update_overall_progress(p) ==
    IF p.current_stage \in DOMAIN p.stages
       /\ p.stages[p.current_stage].total_count > 0
    THEN LET cur == p.stages[p.current_stage]
         IN  IF p.current_stage = "crawl_details"
             THEN [p EXCEPT !.completed_count = cur.completed_count,
                            !.failed_count = cur.failed_count]
             ELSE IF p.current_stage = "search_policies"
             THEN [p EXCEPT !.total_count =
                        IF p.total_count >= cur.total_count
                        THEN p.total_count ELSE cur.total_count]
             ELSE p
    ELSE p

\* CrawlProgress.update_stage_progress
update_stage_progress(p, stage_name, completed, failed) ==
    LET name == StrOr(stage_name, p.current_stage)
    IN  IF name # "" /\ name \in DOMAIN p.stages
        THEN update_overall_progress(
                 [p EXCEPT !.stages[name].completed_count = @ + completed,
                           !.stages[name].failed_count = @ + failed])
        ELSE p

\* CrawlProgress.complete_stage
complete_stage(p, stage_name, success) ==
    LET name == StrOr(stage_name, p.current_stage)
    IN  IF name # "" /\ name \in DOMAIN p.stages
        THEN [p EXCEPT !.stages[name].status =
                           IF success THEN "completed" ELSE "failed",
                       !.stages[name].end_time = Now]
        ELSE p

\* the progress object an earlier crawl_batch of the same crawler left
\* behind: one record, crawled
UsedCrawlProgress ==
    LET searching == set_stage([NewCrawlProgress EXCEPT !.start_time = Now],
                               "search_policies", 0)
        counted == update_stage_progress(
                       set_stage(searching, "crawl_details", 1),
                       "crawl_details", 1, 0)
    IN  [counted EXCEPT !.current_policy_id = PolicyId(pX),
                        !.current_policy_title = pX.title,
                        !.completed_policies = <<PolicyId(pX)>>,
                        !.end_time = Now]

(* ------------------- crawler.py: file-number counters ------------------ *)
SetMax(S) == CHOOSE m \in S : \A x \in S : x <= m

\* the lazy initialisation: `if counter == 0:` scan the directory and take
\* the highest numeric prefix, when there is one
LazyInitValue(counter, prefixes) ==
    IF counter = 0 /\ prefixes # {} THEN SetMax(prefixes) ELSE counter

\* one uncontended call of _get_next_markdown_number / _get_next_file_number:
\* the counter after it (which is also the number returned)
NextNumber(counter, prefixes) == LazyInitValue(counter, prefixes) + 1

(* --------------------- crawler.py: search_all_policies ----------------- *)
\* enabled_sources = [ds for ds in data_sources if ds.get("enabled", True)],
\* as the indices of the enabled sources
enabled_sources ==
    SelectSeq([i \in 1..Len(data_sources) |-> i], LAMBDA i : data_sources[i])

RECURSIVE MergeTail(_, _, _)
\* `for policy in policies: if policy.id not in seen_ids: ...`, from
\* position k of the listing on; yields the new [all, seen]
MergeTail(policies, k, acc) ==
    IF k > Len(policies) THEN acc
    ELSE LET policy == policies[k]
             policy_id == PolicyId(policy)
         IN  IF policy_id \notin acc.seen
             THEN MergeTail(policies, k + 1,
                      [all |-> Append(acc.all, policy),
                       seen |-> acc.seen \cup {policy_id}])
             ELSE MergeTail(policies, k + 1, acc)

\* a merge without the `policy_id not in seen_ids` test
MergePolicies_KeepAll(policies, all, seen) ==
    [all |-> all \o policies,
     seen |-> seen \cup {PolicyId(policies[k]) : k \in 1..Len(policies)}]

MergePolicies(policies, all, seen) ==
    MergeTail(policies, 1, [all |-> all, seen |-> seen])

\* the listing as crawl_policies of source ds hands it over
FromSource(listing, ds) ==
    [k \in 1..Len(listing) |-> [listing[k] EXCEPT !.data_source = ds]]

\* loop heads that never see the flag
StopObserved_Never == FALSE

\* self.stop_requested as the loop heads of search_all_policies and
\* crawl_batch read it
StopObserved == stop_requested

searchUnchanged ==
    UNCHANGED <<data_sources, max_policy_retries, stop_requested, progress,
                rec_idx, retry_count, result_policy, processed, attempts,
                fetch_log, counterVars, allocVars, taskVars, clock, clientVars>>

\* `if self.stop_requested: break` at the head of the source loop
SearchStopCheck ==
    /\ pc = "search"
    /\ src_idx <= Len(enabled_sources)
    /\ StopObserved
    /\ pc' = "searched"
    /\ stop_seen' = TRUE
    /\ UNCHANGED <<all_policies, seen_ids, src_idx, crawled, src_failed,
                   prev_policies, offered>>
    /\ searchUnchanged

\* one source crawled: crawl_policies returns a listing, which is merged
SearchSourceOk ==
    /\ pc = "search"
    /\ src_idx <= Len(enabled_sources)
    /\ ~StopObserved
    /\ \E listing \in Listings :
          LET ds == enabled_sources[src_idx]
              policies == FromSource(listing, ds)
              merged == MergePolicies(policies, all_policies, seen_ids)
          IN  /\ all_policies' = merged.all
              /\ seen_ids' = merged.seen
              /\ crawled' = Append(crawled, ds)
              /\ offered' = offered \cup
                     {<<PolicyId(listing[k]), ds>> : k \in 1..Len(listing)}
    /\ prev_policies' = all_policies
    /\ src_idx' = src_idx + 1
    /\ UNCHANGED <<pc, src_failed, stop_seen>>
    /\ searchUnchanged

\* no handler around crawl_policies: the error leaves search_all_policies
AfterSourceError_Propagates == "aborted"

\* where the source loop stands after `except Exception` caught a source's error
AfterSourceError == "search"

\* one source crawled: crawl_policies raises, the error is logged
SearchSourceFails ==
    /\ pc = "search"
    /\ src_idx <= Len(enabled_sources)
    /\ ~StopObserved
    /\ crawled' = Append(crawled, enabled_sources[src_idx])
    /\ src_failed' = src_failed \cup {enabled_sources[src_idx]}
    /\ prev_policies' = all_policies
    /\ pc' = AfterSourceError
    /\ src_idx' = src_idx + 1
    /\ UNCHANGED <<all_policies, seen_ids, offered, stop_seen>>
    /\ searchUnchanged

\* the source loop is exhausted (or no source is enabled): return all_policies
SearchReturn ==
    /\ pc = "search"
    /\ src_idx > Len(enabled_sources)
    /\ pc' = "searched"
    /\ UNCHANGED <<all_policies, seen_ids, src_idx, crawled, src_failed,
                   prev_policies, offered, stop_seen>>
    /\ searchUnchanged

(* --------------------- crawler.py: crawl_single_policy ----------------- *)
\* what get_policy_detail hands back: a dict (its keys and the values read
\* from it) or, from a stub, None
NoneResult ==
    [is_none |-> TRUE, keys |-> {}, content |-> "", attachments |-> <<>>]
\* api_client.get_policy_detail after its transport retries are exhausted:
\* {"content": "", "attachments": []}
ExhaustedDetail ==
    [is_none |-> FALSE, keys |-> {"content", "attachments"},
     content |-> "", attachments |-> <<>>]
\* api_client.get_policy_detail on a fetched page
OkDetail ==
    [is_none |-> FALSE, keys |-> {"content", "attachments", "metadata"},
     content |-> "body", attachments |-> <<"a1">>]

\* Python truthiness of the result: None and the empty dict are falsy
Truthy(d) == ~d.is_none /\ d.keys # {}

\* the outcomes of one call self.api_client.get_policy_detail(...)
FetchOutcomes ==
    {[raised |-> TRUE, result |-> NoneResult]}
    \cup {[raised |-> FALSE, result |-> d] :
              d \in {NoneResult, ExhaustedDetail, OkDetail}}
\* `if not policy.content and policy.link` is false: no call is made
NoFetch == [raised |-> FALSE, result |-> NoneResult]

FetchTag(fetched, f) ==
    IF ~fetched THEN "skip"
    ELSE IF f.raised THEN "raise"
    ELSE IF f.result = NoneResult THEN "none"
    ELSE IF f.result = ExhaustedDetail THEN "empty"
    ELSE "ok"

\* an exception of a later step of the try body: os.listdir inside
\* _get_next_markdown_number, which is called only while the counter is 0
LateFailures == {"none", "listdir"}

\* a retry test that admits one retry too many
ShouldRetry_OffByOne(rc) == rc <= max_policy_retries

\* `if retry_count < max_policy_retries`
ShouldRetry(rc) == rc < max_policy_retries

\* the output directory of the crawler running crawl_batch
OutputDir == 1

\* `if self.config.get("save_files", True) and attachments:` in an attempt
\* that gets as far as step 4 of the try body
Downloads(reached, attachments) ==
    reached /\ save_files /\ attachments # <<>>

\* one execution of crawl_single_policy's body (the first call or a
\* recursive retry), up to its return or its recursive call
CrawlSinglePolicy ==
    /\ pc = "single"
    /\ LET policy == all_policies[rec_idx]
           fetched == policy.content = "" /\ policy.link # ""
       IN  \E f \in (IF fetched THEN FetchOutcomes ELSE {NoFetch}),
              late \in LateFailures :
             LET noResponse == fetched /\ ~f.raised /\ ~Truthy(f.result)
                 gotDetail == fetched /\ ~f.raised /\ Truthy(f.result)
                 attachments == IF gotDetail THEN f.result.attachments
                                ELSE <<>>
                 pastFetch == ~f.raised /\ ~noResponse
                 failsLate == pastFetch /\ late # "none"
                 raises == f.raised \/ noResponse \/ failsLate
                 allocates == pastFetch /\ late # "listdir"
             IN  /\ late = "listdir" => markdown_counter = 0
                 /\ ~pastFetch => late = "none"
                 /\ all_policies' =
                        IF gotDetail
                        THEN [all_policies EXCEPT
                                  ![rec_idx].content = f.result.content]
                        ELSE all_policies
                 /\ markdown_counter' =
                        IF allocates
                        THEN NextNumber(markdown_counter,
                                        markdown_dir[OutputDir])
                        ELSE markdown_counter
                 /\ file_counter' =
                        IF allocates
                        THEN NextNumber(file_counter, files_dir[OutputDir])
                        ELSE file_counter
                 /\ fetch_log' = Append(fetch_log, FetchTag(fetched, f))
                 /\ discovered' = IF gotDetail THEN attachments
                                  ELSE IF attempts = 0 THEN <<>>
                                  ELSE discovered
                 /\ handed' = IF Downloads(pastFetch /\ late = "none",
                                           attachments)
                              THEN attachments ELSE <<>>
                 /\ IF ~raises
                    THEN /\ result_policy' = TRUE
                         /\ pc' = "result"
                         /\ UNCHANGED retry_count
                    ELSE IF ShouldRetry(retry_count)
                    THEN /\ retry_count' = retry_count + 1
                         /\ pc' = "single"
                         /\ UNCHANGED result_policy
                    ELSE /\ result_policy' = FALSE
                         /\ pc' = "result"
                         /\ UNCHANGED retry_count
    /\ file_number_lock = 0
    /\ progress' = [progress EXCEPT
           !.current_policy_id = PolicyId(all_policies[rec_idx]),
           !.current_policy_title = all_policies[rec_idx].title]
    /\ attempts' = attempts + 1
    /\ UNCHANGED <<data_sources, max_policy_retries, stop_requested, seen_ids,
                   src_idx, rec_idx, crawled, src_failed, prev_policies,
                   processed, offered, stop_seen, file_number_lock,
                   markdown_dir, files_dir, allocVars, taskVars, clock,
                   retryVars, mergeVars, metaVars, cleanVars, callbackVars,
                   lifeVars, save_files, schedVars, cellVars>>

(* ------------------------ crawler.py: crawl_batch ---------------------- *)
batchUnchanged ==
    UNCHANGED <<data_sources, max_policy_retries, stop_requested, crawled,
                counterVars, allocVars, taskVars, clock, clientVars>>

\* search_all_policies has returned: its locals, and what was observed of
\* it, are gone
searchFrameGone ==
    /\ seen_ids' = {}
    /\ src_idx' = 1
    /\ src_failed' = {}
    /\ prev_policies' = <<>>
    /\ offered' = {}

searchFrameUnchanged ==
    UNCHANGED <<seen_ids, src_idx, src_failed, prev_policies, offered>>

\* a return that leaves end_time as it was
StampEndTime_Skipped(p) == p

\* `self.progress.end_time = datetime.now(timezone.utc)`
StampEndTime(p) == [p EXCEPT !.end_time = Now]

\* crawl_batch up to the call of search_all_policies
CrawlBatchStart ==
    /\ pc = "start"
    /\ progress' =
           set_stage(
               IF progress.start_time = NoTime
               THEN [progress EXCEPT !.start_time = Now]
               ELSE [NewCrawlProgress EXCEPT
                         !.start_time = progress.start_time],
               "search_policies", 0)
    /\ all_policies' = <<>>
    /\ pc' = "search"
    /\ UNCHANGED <<rec_idx, retry_count, result_policy, processed, attempts,
                   fetch_log, stop_seen>>
    /\ searchFrameUnchanged
    /\ batchUnchanged

\* `if self.stop_requested:` after the search: stamp end_time and return
BatchStoppedAfterSearch ==
    /\ pc = "searched"
    /\ StopObserved
    /\ progress' = StampEndTime(progress)
    /\ stop_seen' = TRUE
    /\ pc' = "done"
    /\ UNCHANGED <<all_policies, rec_idx, retry_count, result_policy,
                   processed, attempts, fetch_log>>
    /\ searchFrameGone
    /\ batchUnchanged

\* set_stage("crawl_details", ..., len(all_policies)) and enter the loop
BeginDetails ==
    /\ pc = "searched"
    /\ ~StopObserved
    /\ progress' = set_stage(progress, "crawl_details", Len(all_policies))
    /\ rec_idx' = 1
    /\ pc' = "details"
    /\ UNCHANGED <<all_policies, retry_count, result_policy, processed,
                   attempts, fetch_log, stop_seen>>
    /\ searchFrameGone
    /\ batchUnchanged

\* `if self.stop_requested: break` at the head of the record loop, then the
\* code after the loop
DetailsStopCheck ==
    /\ pc = "details"
    /\ rec_idx <= Len(all_policies)
    /\ StopObserved
    /\ progress' = StampEndTime(progress)
    /\ stop_seen' = TRUE
    /\ pc' = "done"
    /\ UNCHANGED <<all_policies, rec_idx, retry_count, result_policy,
                   processed, attempts, fetch_log>>
    /\ searchFrameUnchanged
    /\ batchUnchanged

\* the head of the record loop for the next record, up to the call of
\* crawl_single_policy
RecordStart ==
    /\ pc = "details"
    /\ rec_idx <= Len(all_policies)
    /\ ~StopObserved
    /\ progress' = [progress EXCEPT
           !.current_policy_id = PolicyId(all_policies[rec_idx]),
           !.current_policy_title = all_policies[rec_idx].title]
    /\ processed' = Append(processed, rec_idx)
    /\ attempts' = 0
    /\ fetch_log' = <<>>
    /\ retry_count' = 0
    /\ pc' = "single"
    /\ UNCHANGED <<all_policies, rec_idx, result_policy, stop_seen>>
    /\ searchFrameUnchanged
    /\ batchUnchanged

\* a record counted under both outcomes
StageDelta_Both(ok) == <<1, 1>>

\* the amounts crawl_batch adds to the stage for one returned record:
\* <<completed, failed>>
StageDelta(ok) == IF ok THEN <<1, 0>> ELSE <<0, 1>>

\* a loop that gives up at the first failed record
NextRecIdx_AbortOnFailure(ok, i) == IF ok THEN i + 1 ELSE Len(all_policies) + 1

\* `for i, policy in enumerate(all_policies, 1)`: the record after record i,
\* whatever crawl_single_policy returned for it
NextRecIdx(ok, i) == i + 1

\* crawl_batch's failure_reason, a fixed non-empty text ("crawl failed")
failure_reason == "crawl failed"

\* crawl_single_policy returned: count the record as completed or failed
RecordResult ==
    /\ pc = "result"
    /\ LET policy == all_policies[rec_idx]
           d == StageDelta(result_policy)
           counted == update_stage_progress(progress, "crawl_details",
                                            d[1], d[2])
       IN  progress' =
               IF result_policy
               THEN [counted EXCEPT !.completed_policies =
                         Append(@, PolicyId(policy))]
               ELSE [counted EXCEPT !.failed_policies =
                         Append(@, [id |-> PolicyId(policy),
                                    title |-> policy.title,
                                    link |-> StrOr(policy.link,
                                                StrOr(policy.source,
                                                      policy.url)),
                                    pub_date |-> policy.pub_date,
                                    doc_number |-> policy.doc_number,
                                    reason |-> failure_reason])]
    /\ rec_idx' = NextRecIdx(result_policy, rec_idx)
    /\ retry_count' = 0
    /\ attempts' = 0
    /\ fetch_log' = <<>>
    /\ pc' = "details"
    /\ UNCHANGED <<all_policies, result_policy, processed, stop_seen>>
    /\ searchFrameUnchanged
    /\ batchUnchanged

\* the record loop is exhausted: stamp end_time and return
DetailsFinish ==
    /\ pc = "details"
    /\ rec_idx > Len(all_policies)
    /\ progress' = StampEndTime(progress)
    /\ pc' = "done"
    /\ UNCHANGED <<all_policies, rec_idx, retry_count, result_policy,
                   processed, attempts, fetch_log, stop_seen>>
    /\ searchFrameUnchanged
    /\ batchUnchanged

\* PolicyCrawler.request_stop, called from outside at any moment of the run
RequestStop ==
    /\ pc \notin {"done", "aborted"}
    /\ ~stop_requested
    /\ stop_requested' = TRUE
    /\ UNCHANGED <<pc, data_sources, max_policy_retries, progress,
                   all_policies, seen_ids, src_idx, rec_idx, retry_count,
                   result_policy, crawled, src_failed, prev_policies,
                   processed, attempts, fetch_log, offered, stop_seen,
                   counterVars, allocVars, taskVars, clock, clientVars>>

InitCounters ==
    /\ markdown_counter = 0
    /\ file_counter = 0
    /\ file_number_lock = 0

\* the crawlers of the process and the output directories they write to
Crawlers == 1..MaxCrawlers
Dirs == {1, 2}
Kinds == {"markdown", "file"}

\* no allocation call in progress, none made
AllocIdle ==
    /\ tpc = [c \in Crawlers |-> "idle"]
    /\ tkind = [c \in Crawlers |-> "markdown"]
    /\ loaded = [c \in Crawlers |-> 0]
    /\ output_dir = [c \in Crawlers |-> OutputDir]
    /\ alloc_calls = 0
    /\ granted = [k \in Kinds |-> <<>>]
    /\ ticket = [c \in Crawlers |-> 0]

\* TaskService(): empty registries; the task row as create_task leaves it
TaskIdle ==
    /\ task_status = "pending"
    /\ crawler_instances = FALSE
    /\ running_tasks = FALSE
    /\ epc = "idle"
    /\ crawler_local = "unbound"
    /\ task_local = "pending"
    /\ policies_len = 0
    /\ loop_i = 0
    /\ api_pc = "idle"
    /\ stop_accepted = FALSE
    /\ pause_accepted = FALSE
    /\ detail_crawls = 0
    /\ save_calls = 0
    /\ task_end_time = NoTime
    /\ error_message = ""
    /\ exc = "None"
    /\ failed_count = 0

\* APIClient(config) just constructed
NewClient ==
    /\ call_pc = "idle"
    /\ call_fn = ""
    /\ max_retries = 0
    /\ retry = 0
    /\ http_attempts = 0
    /\ last_error = "none"
    /\ call_ret = "unset"
    /\ raised = "none"
    /\ file_size = 0
    /\ request_count = 0
    /\ session = 0
    /\ calls_since = 0
    /\ current_proxy = 0
    /\ used_proxy = 0
    /\ acquired = FALSE
    /\ wait_time = 0

\* a client with the smallest settings and no call in progress
RetryIdle ==
    /\ NewClient
    /\ session_rotate_interval = 1
    /\ retry_delay = 1

\* no detail page fetched
MergeIdle ==
    /\ merge_pc = "idle"
    /\ listed = <<>>
    /\ policy_rec = <<>>
    /\ metadata = <<>>

\* no page being parsed
MetaIdle ==
    /\ ex_pc = "idle"
    /\ n_pairs = 0
    /\ md = <<>>
    /\ row_pub_date = <<>>
    /\ last_pair = <<>>

\* no text being cleaned
CleanIdle ==
    /\ clean_pc = "idle"
    /\ raw_content = <<>>
    /\ content = <<>>
    /\ lines = <<>>
    /\ line_i = 1
    /\ cleaned_lines = <<>>
    /\ in_metadata_block = FALSE
    /\ metadata_block_start = 0
    /\ consecutive_metadata_lines = 0
    /\ block_first = 0
    /\ removed_lines = {}

\* no _update_progress call in progress
CallbackIdle ==
    /\ up_pc = "idle"
    /\ progress_callback = "None"
    /\ kwargs = <<>>
    /\ progress_before = <<>>
    /\ delivered = "nothing"

\* the positions between two steps of an API call of TaskService
CallPhases == {"start_checked", "stop_signal", "pause_signal", "resume_start"}

\* a task created by create_task, no thread started, no call in progress
LifeIdle ==
    /\ db_status = "pending"
    /\ executors = <<>>
    /\ crawlers = <<>>
    /\ instances = 0
    /\ running = 0
    /\ inflight = [ph \in CallPhases |-> 0]

\* the default configuration, no record crawled
AttachIdle ==
    /\ save_files = TRUE
    /\ discovered = <<>>
    /\ handed = <<>>

\* a scheduled task that is disabled and has never run
SchedIdle ==
    /\ is_enabled = FALSE
    /\ job_added = FALSE
    /\ task_type = "crawl_task"
    /\ trig_pc = "idle"
    /\ run_record = "none"
    /\ last_run_status = "none"
    /\ crawl_task = "none"
    /\ waited_time = 0
    /\ result_status = "none"
    /\ disable_pc = "idle"
    /\ disabled = FALSE
    /\ runs = 0

\* a page without a label block
CellIdle ==
    /\ label_cells = [group1 |-> <<>>, group2 |-> <<>>]
    /\ value_cells = [group1 |-> <<>>, group2 |-> <<>>]

BackendIdle == LifeIdle /\ AttachIdle /\ SchedIdle /\ CellIdle

ClientIdle ==
    /\ RetryIdle
    /\ MergeIdle
    /\ MetaIdle
    /\ CleanIdle
    /\ CallbackIdle
    /\ BackendIdle

\* PolicyCrawler(config) before crawl_batch is called
CrawlIdle ==
    /\ pc = "start"
    /\ stop_requested = FALSE
    /\ progress = NewCrawlProgress
    /\ all_policies = <<>>
    /\ seen_ids = {}
    /\ src_idx = 1
    /\ rec_idx = 1
    /\ retry_count = 0
    /\ result_policy = FALSE
    /\ crawled = <<>>
    /\ src_failed = {}
    /\ prev_policies = <<>>
    /\ processed = <<>>
    /\ attempts = 0
    /\ fetch_log = <<>>
    /\ offered = {}
    /\ stop_seen = FALSE

InitCrawl ==
    /\ clock = 1
    /\ RetryIdle
    /\ MergeIdle
    /\ MetaIdle
    /\ CleanIdle
    /\ CallbackIdle
    /\ LifeIdle
    /\ SchedIdle
    /\ CellIdle
    /\ save_files \in BOOLEAN
    /\ discovered = <<>>
    /\ handed = <<>>
    /\ AllocIdle
    /\ TaskIdle
    /\ pc = "start"
    /\ data_sources \in [1..MaxSources -> BOOLEAN]
    /\ max_policy_retries \in 0..MaxRetries
    /\ stop_requested = FALSE
    /\ progress \in {NewCrawlProgress, UsedCrawlProgress}
    /\ all_policies = <<>>
    /\ seen_ids = {}
    /\ src_idx = 1
    /\ rec_idx = 1
    /\ retry_count = 0
    /\ result_policy = FALSE
    /\ crawled = <<>>
    /\ src_failed = {}
    /\ prev_policies = <<>>
    /\ processed = <<>>
    /\ attempts = 0
    /\ fetch_log = <<>>
    /\ offered = {}
    /\ stop_seen = FALSE
    /\ InitCounters
    /\ markdown_dir = [d \in {OutputDir} |-> {}]
    /\ files_dir = [d \in {OutputDir} |-> {}]

NextCrawl ==
    \/ CrawlBatchStart
    \/ SearchStopCheck
    \/ SearchSourceOk
    \/ SearchSourceFails
    \/ SearchReturn
    \/ BatchStoppedAfterSearch
    \/ BeginDetails
    \/ DetailsStopCheck
    \/ RecordStart
    \/ CrawlSinglePolicy
    \/ RecordResult
    \/ DetailsFinish
    \/ RequestStop

SpecCrawl == InitCrawl /\ [][NextCrawl]_vars

(* ===================== properties of the crawl run ===================== *)
\* the identity keys of a list of records, in order
Ids(policies) == [k \in 1..Len(policies) |-> PolicyId(policies[k])]

\* the sources that offered the key, as positions of the configured order
OfferedBy(id) == {o[2] : o \in {x \in offered : x[1] = id}}

SetMin(S) == CHOOSE m \in S : \A x \in S : m <= x

\* C1: while search_all_policies merges and when it returns, no two records
\* of the merged list share an identity key, the list holds exactly the keys
\* some crawled source offered, and the record kept for a key comes from the
\* earliest source of the configured order that offered it.
C1_MergedKeysUniqueEarliestSourceWins ==
    pc \in {"search", "searched"} =>
        /\ \A i, j \in 1..Len(all_policies) :
               i # j => PolicyId(all_policies[i]) # PolicyId(all_policies[j])
        /\ Range(Ids(all_policies)) = {o[1] : o \in offered}
        /\ \A k \in 1..Len(all_policies) :
               all_policies[k].data_source =
                   SetMin(OfferedBy(PolicyId(all_policies[k])))

\* two sources offered the same key (one by link, or by source only) and the
\* search returned
C1_Witness_SameKeyFromTwoSources ==
    /\ pc = "searched"
    /\ \E id \in {o[1] : o \in offered} : Cardinality(OfferedBy(id)) >= 2
    /\ Len(all_policies) >= 2

\* every detail fetch logged for the record in flight failed: the call
\* raised, or handed back nothing
AlwaysFailed(log) ==
    /\ log # <<>>
    /\ \A k \in 1..Len(log) : log[k] \in {"raise", "none"}

\* the failed_policies entries of the record at position i of all_policies
FailedEntries(i) ==
    {k \in 1..Len(progress.failed_policies) :
        progress.failed_policies[k].id = PolicyId(all_policies[i])}

\* C2: with max_policy_retries = N a record is never attempted more than N+1
\* times; when every detail fetch failed, crawl_single_policy returns after
\* exactly N+1 attempts and returns None; and a record for which it returned
\* None has exactly one failed_policies entry, with a non-empty reason.
C2_ExactlyNPlusOneAttemptsThenFailed ==
    /\ attempts <= max_policy_retries + 1
    /\ (pc = "result" /\ AlwaysFailed(fetch_log)) =>
           (attempts = max_policy_retries + 1 /\ ~result_policy)
    /\ (pc = "details" /\ processed # <<>> /\ ~result_policy) =>
           LET i == processed[Len(processed)]
           IN  /\ Cardinality(FailedEntries(i)) = 1
               /\ \A k \in FailedEntries(i) :
                      progress.failed_policies[k].reason # ""

\* N = 2, three failed fetches, the record is recorded as failed
C2_Witness_ThreeAttempts ==
    /\ pc = "result"
    /\ max_policy_retries = 2
    /\ attempts = 3
    /\ AlwaysFailed(fetch_log)
    /\ ~result_policy

\* every detail fetch logged for the record in flight came back as the
\* access layer's empty-content result
AlwaysExhausted(log) ==
    /\ log # <<>>
    /\ \A k \in 1..Len(log) : log[k] = "empty"

\* C3: a record whose detail fetches all came back as the access layer's
\* empty-content result is retried up to max_policy_retries times and then
\* returned as a failure (None), so that it is counted failed, not completed.
C3_ExhaustedFetchIsRecordFailure ==
    (pc = "result" /\ AlwaysExhausted(fetch_log)) =>
        (attempts = max_policy_retries + 1 /\ ~result_policy)

\* one fetch came back with the empty-content result and the record was
\* returned as crawled, without any retry, although retries are configured
C3_Witness_ExhaustedReturnedAsSuccess ==
    /\ pc = "result"
    /\ AlwaysExhausted(fetch_log)
    /\ max_policy_retries = 2
    /\ attempts = 1
    /\ result_policy

\* C4: when a run without a stop request returns, every merged record was
\* handed to crawl_single_policy exactly once, in list order, and the
\* crawl_details stage has completed_count + failed_count = total_count =
\* len(all_policies), len(completed_policies) = completed_count and
\* len(failed_policies) = failed_count.
C4_EveryRecordOnceInOrder ==
    (pc = "done" /\ ~stop_requested) =>
        /\ processed = [k \in 1..Len(all_policies) |-> k]
        /\ "crawl_details" \in DOMAIN progress.stages
        /\ LET st == progress.stages["crawl_details"]
           IN  /\ st.total_count = Len(all_policies)
               /\ st.completed_count + st.failed_count = st.total_count
               /\ Len(progress.completed_policies) = st.completed_count
               /\ Len(progress.failed_policies) = st.failed_count

\* a run without stop whose first record failed and whose second completed
C4_Witness_FailureThenSuccess ==
    /\ pc = "done"
    /\ ~stop_requested
    /\ Len(all_policies) = 2
    /\ Len(progress.failed_policies) = 1
    /\ progress.failed_policies[1].id = PolicyId(all_policies[1])
    /\ progress.completed_policies = <<PolicyId(all_policies[2])>>

\* s is a prefix of t
IsPrefix(s, t) == Len(s) <= Len(t) /\ \A k \in 1..Len(s) : s[k] = t[k]

\* C5: an error of one source never leaves search_all_policies; crawling a
\* source keeps every record merged before it, a source that failed adds
\* nothing, and a search that returns without having seen a stop request
\* has crawled every enabled source, in the configured order.
C5_FailingSourceDoesNotAbortSearch ==
    /\ pc # "aborted"
    /\ pc \in {"search", "searched"} =>
           /\ IsPrefix(prev_policies, all_policies)
           /\ (crawled # <<>> /\ crawled[Len(crawled)] \in src_failed) =>
                  all_policies = prev_policies
           /\ IsPrefix(crawled, enabled_sources)
           /\ (pc = "searched" /\ ~stop_seen) => crawled = enabled_sources

\* the first source failed, the second was crawled and its records merged
C5_Witness_LaterSourceCrawled ==
    /\ pc = "searched"
    /\ Len(crawled) = 2
    /\ crawled[1] \in src_failed
    /\ crawled[2] \notin src_failed
    /\ all_policies # <<>>

\* the counts of the crawl_details stage, 0 while the stage does not exist
DetailsCounted ==
    IF "crawl_details" \in DOMAIN progress.stages
    THEN progress.stages["crawl_details"].completed_count
         + progress.stages["crawl_details"].failed_count
    ELSE 0

\* C8: a step taken while stop_requested is set starts no source crawl and
\* hands no record to crawl_single_policy; and, once the run has set up its
\* progress, only records that were handed to crawl_single_policy are
\* counted or listed as completed or failed.
C8_NothingStartedAfterStop ==
    /\ [][stop_requested =>
              (crawled' = crawled /\ processed' = processed)]_vars
    /\ [](pc # "start" =>
            /\ DetailsCounted <= Len(processed)
            /\ Len(progress.completed_policies)
               + Len(progress.failed_policies) = DetailsCounted
            /\ pc = "done" => DetailsCounted = Len(processed))

\* a stop request arrived while the first of two records was in flight: the
\* run ended with the second record neither processed nor counted
C8_Witness_StoppedMidway ==
    /\ pc = "done"
    /\ stop_seen
    /\ Len(all_policies) = 2
    /\ processed = <<1>>
    /\ DetailsCounted = 1

\* C10: every stage whose total_count is known (> 0) has
\* completed_count + failed_count <= total_count.
C10_StageCountsWithinTotal ==
    \A n \in DOMAIN progress.stages :
        progress.stages[n].total_count > 0 =>
            progress.stages[n].completed_count
            + progress.stages[n].failed_count
                <= progress.stages[n].total_count

\* a stage with a known total, partly counted, with both outcomes present
C10_Witness_BothOutcomesCounted ==
    /\ "crawl_details" \in DOMAIN progress.stages
    /\ progress.stages["crawl_details"].total_count = 2
    /\ progress.stages["crawl_details"].completed_count = 1
    /\ progress.stages["crawl_details"].failed_count = 1

\* C14: from the point the crawl_details stage has been made current until
\* crawl_batch returns, CrawlProgress.total_count is the number of merged
\* records the search returned.
C14_TotalCountIsMergedCount ==
    pc \in {"details", "single", "result"} =>
        progress.total_count = Len(all_policies)

\* crawl_details is current for two merged records and total_count is 0
C14_Witness_TotalCountStillZero ==
    /\ pc = "details"
    /\ progress.current_stage = "crawl_details"
    /\ Len(all_policies) = 2
    /\ progress.total_count = 0

\* C15: when crawl_batch has returned, CrawlProgress.end_time is set; from
\* the start of the run until the return it is not set.
C15_EndTimeSetExactlyOnReturn ==
    /\ pc = "done" => progress.end_time # NoTime
    /\ pc \in {"search", "searched", "details", "single", "result"} =>
           progress.end_time = NoTime

\* a run that returned early on a stop request during the detail phase,
\* with end_time stamped
C15_Witness_StoppedRunHasEndTime ==
    /\ pc = "done"
    /\ stop_seen
    /\ progress.current_stage = "crawl_details"
    /\ DetailsCounted < Len(all_policies)
    /\ progress.end_time # NoTime

\* the stages a progress object has, as set_stage started them
StartedStages(p) == {n \in DOMAIN p.stages : p.stages[n].status # "pending"}

\* C31: when crawl_batch has returned after processing all records, every
\* stage it started (search_policies, crawl_details) is completed or failed
\* with end_time set; none is left running.
C31_StartedStagesTerminalOnReturn ==
    (pc = "done" /\ ~stop_seen /\ DetailsCounted = Len(all_policies)) =>
        \A n \in StartedStages(progress) :
            /\ progress.stages[n].status \in {"completed", "failed"}
            /\ progress.stages[n].end_time # NoTime

\* a run that processed both of its records and returned, with both stages
\* started
C31_Witness_ReturnedAfterAllRecords ==
    /\ pc = "done"
    /\ ~stop_seen
    /\ Len(all_policies) = 2
    /\ DetailsCounted = 2
    /\ StartedStages(progress) = {"search_policies", "crawl_details"}
    /\ progress.end_time # NoTime

\* C36: a record that crawl_single_policy returns on a retry attempt has the
\* attachments of its detail page passed to _download_attachments as a
\* record returned by the first attempt has: all of them when save_files is
\* on and there are any.
C36_RetrySuccessDownloadsAttachments ==
    (pc = "result" /\ result_policy /\ attempts > 1) =>
        handed = IF save_files THEN discovered ELSE <<>>

\* a record returned by its second attempt: the first fetched the page with
\* one attachment and failed afterwards, the second passed nothing on
C36_Witness_RetryAfterLateFailure ==
    /\ pc = "result"
    /\ result_policy
    /\ attempts = 2
    /\ fetch_log = <<"ok", "skip">>
    /\ save_files
    /\ discovered = <<"a1">>
    /\ handed = <<>>

(* ============ crawler.py: concurrent file-number allocation ============ *)
\* numeric prefixes a directory can hold when the process starts
PrefixSets == {{}, {3}}

\* the directories at process start: directory 1 is fresh, directory 2 may
\* hold numbered files of an earlier run
DirContents == {f \in [Dirs -> PrefixSets] : f[1] = {}}

\* a `with` that enters without waiting for the lock
LockFree_Ignored == TRUE

\* `with _file_number_lock:` can be entered
LockFree == file_number_lock = 0

\* the global a call of the given kind works on
Counter(kind) == IF kind = "markdown" THEN markdown_counter ELSE file_counter

\* the directory listing a call of the given kind scans: the numeric
\* prefixes in {output_dir}/markdown (of *.md) or {output_dir}/files
Prefixes(c, kind) ==
    IF kind = "markdown" THEN markdown_dir[output_dir[c]]
    ELSE files_dir[output_dir[c]]

\* assignment to the global of the given kind
SetCounter(kind, v) ==
    IF kind = "markdown"
    THEN markdown_counter' = v /\ UNCHANGED file_counter
    ELSE file_counter' = v /\ UNCHANGED markdown_counter

allocUnchanged == UNCHANGED <<crawlVars, taskVars, markdown_dir, files_dir,
                              output_dir, clock, clientVars>>

\* a crawler thread calls _get_next_markdown_number or _get_next_file_number
AllocCall(c) ==
    /\ tpc[c] = "idle"
    /\ alloc_calls < MaxAllocs
    /\ \E kind \in Kinds : tkind' = [tkind EXCEPT ![c] = kind]
    /\ tpc' = [tpc EXCEPT ![c] = "waiting"]
    /\ alloc_calls' = alloc_calls + 1
    /\ UNCHANGED <<markdown_counter, file_counter, file_number_lock, loaded,
                   granted, ticket>>
    /\ allocUnchanged

\* `with _file_number_lock:` is entered
AllocAcquire(c) ==
    /\ tpc[c] = "waiting"
    /\ LockFree
    /\ file_number_lock' = c
    /\ granted' = [granted EXCEPT ![tkind[c]] = Append(@, 0)]
    /\ ticket' = [ticket EXCEPT ![c] = Len(granted[tkind[c]]) + 1]
    /\ tpc' = [tpc EXCEPT ![c] = "locked"]
    /\ UNCHANGED <<markdown_counter, file_counter, tkind, loaded, alloc_calls>>
    /\ allocUnchanged

\* `if counter == 0:` and the directory scan
AllocLazyInit(c) ==
    /\ tpc[c] = "locked"
    /\ SetCounter(tkind[c],
                  LazyInitValue(Counter(tkind[c]), Prefixes(c, tkind[c])))
    /\ tpc' = [tpc EXCEPT ![c] = "inited"]
    /\ UNCHANGED <<file_number_lock, tkind, loaded, alloc_calls, granted,
                   ticket>>
    /\ allocUnchanged

\* os.listdir raises during the scan: the `with` releases the lock and the
\* call ends without a number
AllocScanFails(c) ==
    /\ tpc[c] = "locked"
    /\ Counter(tkind[c]) = 0
    /\ file_number_lock' = IF file_number_lock = c THEN 0 ELSE file_number_lock
    /\ granted' = [granted EXCEPT ![tkind[c]][ticket[c]] = -1]
    /\ tpc' = [tpc EXCEPT ![c] = "idle"]
    /\ UNCHANGED <<markdown_counter, file_counter, tkind, loaded, alloc_calls,
                   ticket>>
    /\ allocUnchanged

\* `counter += 1`, the read of the global
AllocLoad(c) ==
    /\ tpc[c] = "inited"
    /\ loaded' = [loaded EXCEPT ![c] = Counter(tkind[c])]
    /\ tpc' = [tpc EXCEPT ![c] = "loaded"]
    /\ UNCHANGED <<markdown_counter, file_counter, file_number_lock, tkind,
                   alloc_calls, granted, ticket>>
    /\ allocUnchanged

\* `counter += 1`, the write of the global
AllocStore(c) ==
    /\ tpc[c] = "loaded"
    /\ SetCounter(tkind[c], loaded[c] + 1)
    /\ tpc' = [tpc EXCEPT ![c] = "stored"]
    /\ UNCHANGED <<file_number_lock, tkind, loaded, alloc_calls, granted,
                   ticket>>
    /\ allocUnchanged

\* `return counter` and the exit of the `with`
AllocReturn(c) ==
    /\ tpc[c] = "stored"
    /\ granted' = [granted EXCEPT ![tkind[c]][ticket[c]] = Counter(tkind[c])]
    /\ file_number_lock' = IF file_number_lock = c THEN 0 ELSE file_number_lock
    /\ tpc' = [tpc EXCEPT ![c] = "idle"]
    /\ UNCHANGED <<markdown_counter, file_counter, tkind, loaded, alloc_calls,
                   ticket>>
    /\ allocUnchanged

\* the process starts: counters at 0, the lock free, any crawler on either
\* output directory
InitCounter ==
    /\ clock = 1
    /\ ClientIdle
    /\ CrawlIdle
    /\ data_sources = [i \in 1..MaxSources |-> TRUE]
    /\ max_policy_retries = 0
    /\ TaskIdle
    /\ InitCounters
    /\ markdown_dir \in DirContents
    /\ files_dir \in DirContents
    /\ tpc = [c \in Crawlers |-> "idle"]
    /\ tkind = [c \in Crawlers |-> "markdown"]
    /\ loaded = [c \in Crawlers |-> 0]
    /\ output_dir \in [Crawlers -> Dirs]
    /\ alloc_calls = 0
    /\ granted = [k \in Kinds |-> <<>>]
    /\ ticket = [c \in Crawlers |-> 0]

NextCounter ==
    \E c \in Crawlers :
        \/ AllocCall(c)
        \/ AllocAcquire(c)
        \/ AllocLazyInit(c)
        \/ AllocScanFails(c)
        \/ AllocLoad(c)
        \/ AllocStore(c)
        \/ AllocReturn(c)

SpecCounter == InitCounter /\ [][NextCounter]_vars

\* C9: among the calls of one kind, taken in the order they acquired the
\* lock, the numbers returned are strictly increasing (hence no two calls
\* return the same number), whatever the interleaving of the crawlers.
C9_NumbersStrictlyIncreaseInLockOrder ==
    \A kind \in Kinds :
        \A i, j \in 1..Len(granted[kind]) :
            (i < j /\ granted[kind][i] > 0 /\ granted[kind][j] > 0) =>
                granted[kind][i] < granted[kind][j]

\* two crawlers with different output directories were each given a
\* markdown number, and a third call returned as well
C9_Witness_TwoCrawlersAllocated ==
    /\ Len(granted["markdown"]) = 3
    /\ \A i \in 1..3 : granted["markdown"][i] > 0
    /\ output_dir[1] # output_dir[2]
    /\ \A c \in Crawlers : ticket[c] > 0 /\ tpc[c] = "idle"
    /\ markdown_dir[output_dir[1]] # markdown_dir[output_dir[2]]

\* C28: every number a call returns is strictly greater than every numeric
\* prefix present in the calling crawler's own directory of that kind,
\* whatever the order of the calls and the output directories of the
\* crawlers.
C28_NumberAboveOwnDirectoryPrefixes ==
    \A c \in Crawlers :
        (tpc[c] = "idle" /\ ticket[c] > 0
            /\ granted[tkind[c]][ticket[c]] > 0) =>
            \A n \in Prefixes(c, tkind[c]) :
                granted[tkind[c]][ticket[c]] > n

\* the first call of the process came from a crawler whose markdown
\* directory holds prefix 3, and returned 4
C28_Witness_FirstCallScansOwnDirectory ==
    \E c \in Crawlers :
        /\ tpc[c] = "idle"
        /\ tkind[c] = "markdown"
        /\ ticket[c] = 1
        /\ markdown_dir[output_dir[c]] = {3}
        /\ granted["markdown"] = <<4>>

(* ====== task_service.py: the executor thread against stop / pause ====== *)
taskUnchanged ==
    UNCHANGED <<crawlState, counterVars, allocVars, clock, clientVars>>

\* str(e) of the exceptions that reach the handler of the inner try: the
\* ValueError of the data-source validation and an error raised by a library
ExceptionMessages == {"no valid data source", "connection refused"}

\* start_task (the first start of the task): the status tests, status
\* "running" committed, the executor thread started and recorded
StartTask ==
    /\ epc = "idle"
    /\ task_status \notin {"running", "completed", "cancelled"}
    /\ task_status' = "running"
    /\ running_tasks' = TRUE
    /\ epc' = "status_check"
    /\ UNCHANGED <<stop_requested, crawler_instances, crawler_local,
                   task_local, policies_len, loop_i, api_pc, stop_accepted,
                   pause_accepted, detail_crawls, save_calls>>
    /\ taskUnchanged
    /\ UNCHANGED <<task_end_time, error_message, exc, failed_count>>

\* stop_task up to db.commit(): the status test passes, "cancelled" is
\* committed
StopTaskCommit ==
    /\ api_pc = "idle"
    /\ task_status = "running"
    /\ task_status' = "cancelled"
    /\ stop_accepted' = TRUE
    /\ api_pc' = "stop_signal"
    /\ UNCHANGED <<stop_requested, crawler_instances, running_tasks, epc,
                   crawler_local, task_local, policies_len, loop_i,
                   pause_accepted, detail_crawls, save_calls>>
    /\ taskUnchanged
    /\ task_end_time' = Now
    /\ UNCHANGED <<error_message, exc, failed_count>>

\* stop_task under _crawler_lock: set the registered crawler's flag, delete
\* the registry entry
StopTaskSignal ==
    /\ api_pc = "stop_signal"
    /\ stop_requested' = (stop_requested \/ crawler_instances)
    /\ crawler_instances' = FALSE
    /\ api_pc' = "idle"
    /\ UNCHANGED <<task_status, running_tasks, epc, crawler_local, task_local,
                   policies_len, loop_i, stop_accepted, pause_accepted,
                   detail_crawls, save_calls>>
    /\ taskUnchanged
    /\ UNCHANGED <<task_end_time, error_message, exc, failed_count>>

\* pause_task up to db.commit(): the status test passes, "paused" is committed
PauseTaskCommit ==
    /\ api_pc = "idle"
    /\ task_status = "running"
    /\ task_status' = "paused"
    /\ pause_accepted' = TRUE
    /\ api_pc' = "pause_signal"
    /\ UNCHANGED <<stop_requested, crawler_instances, running_tasks, epc,
                   crawler_local, task_local, policies_len, loop_i,
                   stop_accepted, detail_crawls, save_calls>>
    /\ taskUnchanged
    /\ task_end_time' = Now
    /\ UNCHANGED <<error_message, exc, failed_count>>

\* pause_task under _crawler_lock: set the registered crawler's flag
PauseTaskSignal ==
    /\ api_pc = "pause_signal"
    /\ stop_requested' = (stop_requested \/ crawler_instances)
    /\ api_pc' = "idle"
    /\ UNCHANGED <<task_status, crawler_instances, running_tasks, epc,
                   crawler_local, task_local, policies_len, loop_i,
                   stop_accepted, pause_accepted, detail_crawls, save_calls>>
    /\ taskUnchanged
    /\ UNCHANGED <<task_end_time, error_message, exc, failed_count>>

\* _execute_task: the status test before the crawler is created; on
\* "running" the PolicyCrawler is constructed (stop_requested = False)
ExecStatusCheck ==
    /\ epc = "status_check"
    /\ task_local' = task_status
    /\ IF task_status # "running"
       THEN /\ epc' = "finally"
            /\ UNCHANGED <<stop_requested, crawler_local>>
       ELSE /\ epc' = "register"
            /\ stop_requested' = FALSE
            /\ crawler_local' = "crawler"
    /\ UNCHANGED <<task_status, crawler_instances, running_tasks,
                   policies_len, loop_i, api_pc, stop_accepted,
                   pause_accepted, detail_crawls, save_calls>>
    /\ taskUnchanged
    /\ UNCHANGED <<task_end_time, error_message, exc, failed_count>>

\* self._crawler_instances[task_id] = crawler, under the lock
ExecRegister ==
    /\ epc = "register"
    /\ crawler_instances' = TRUE
    /\ epc' = "search"
    /\ UNCHANGED <<stop_requested, task_status, running_tasks, crawler_local,
                   task_local, policies_len, loop_i, api_pc, stop_accepted,
                   pause_accepted, detail_crawls, save_calls>>
    /\ taskUnchanged
    /\ UNCHANGED <<task_end_time, error_message, exc, failed_count>>

\* crawler.search_all_policies(...) returns its merged list
ExecSearch ==
    /\ epc = "search"
    /\ policies_len' \in 0..MaxPolicies
    /\ loop_i' = 0
    /\ epc' = "loop_check"
    /\ UNCHANGED <<stop_requested, task_status, crawler_instances,
                   running_tasks, crawler_local, task_local, api_pc,
                   stop_accepted, pause_accepted, detail_crawls, save_calls>>
    /\ taskUnchanged
    /\ UNCHANGED <<task_end_time, error_message, exc, failed_count>>

\* an exception reaches the handler of the executor's inner try (raised by
\* the search, outside its per-source handler); a source's failure inside
\* the search is caught there and ExecSearch returns the other sources' list
ExecSearchRaises ==
    /\ epc = "search"
    /\ epc' = "except"
    /\ UNCHANGED <<stop_requested, task_status, crawler_instances,
                   running_tasks, crawler_local, task_local, policies_len,
                   loop_i, api_pc, stop_accepted, pause_accepted,
                   detail_crawls, save_calls>>
    /\ taskUnchanged
    /\ exc' \in ExceptionMessages
    /\ UNCHANGED <<task_end_time, error_message, failed_count>>

\* the status the executor writes when it finds the stop flag set
StoppedStatus(loaded_status) ==
    IF loaded_status = "paused" THEN "paused" ELSE "cancelled"

\* the error_message written with it
StoppedMessage(loaded_status) ==
    IF loaded_status = "paused" THEN "task paused" ELSE "task cancelled"

\* .utils.sanitize_error_message: the exception's message is kept
sanitize_error_message(e) == e

\* a handler that never writes "failed"
ExceptStatus_NeverFailed(was_stopped, loaded_status) ==
    StoppedStatus(loaded_status)

\* the status the handler of the inner try writes
ExceptStatus(was_stopped, loaded_status) ==
    IF was_stopped THEN StoppedStatus(loaded_status) ELSE "failed"

\* the head of the record loop: under the lock, `crawler` is re-read from
\* the registry; with the flag set on it the status is written and the loop
\* left
ExecLoopCheck ==
    /\ epc = "loop_check"
    /\ IF loop_i >= policies_len
       THEN /\ epc' = "after_loop"
            /\ UNCHANGED <<crawler_local, task_local, task_status>>
       ELSE /\ crawler_local' = IF crawler_instances THEN "crawler" ELSE "None"
            /\ IF crawler_instances /\ stop_requested
               THEN /\ task_local' = StoppedStatus(task_status)
                    /\ task_status' = StoppedStatus(task_status)
                    /\ epc' = "after_loop"
               ELSE /\ epc' = "record"
                    /\ UNCHANGED <<task_local, task_status>>
    /\ UNCHANGED <<stop_requested, crawler_instances, running_tasks,
                   policies_len, loop_i, api_pc, stop_accepted,
                   pause_accepted, detail_crawls, save_calls>>
    /\ taskUnchanged
    /\ task_end_time' = IF loop_i < policies_len /\ crawler_instances
                           /\ stop_requested
                        THEN Now ELSE task_end_time
    /\ UNCHANGED <<error_message, exc, failed_count>>

\* the body of the record loop: crawler.crawl_single_policy (an
\* AttributeError when `crawler` is None, or the record's own failure, caught:
\* the listing's data is used), then policy_service.save_policy, whose
\* exception is caught and counted in failed_count
ExecRecord ==
    /\ epc = "record"
    /\ detail_crawls' = IF crawler_local = "crawler"
                        THEN detail_crawls + 1 ELSE detail_crawls
    /\ save_calls' = save_calls + 1
    /\ loop_i' = loop_i + 1
    /\ epc' = "loop_check"
    /\ UNCHANGED <<stop_requested, task_status, crawler_instances,
                   running_tasks, crawler_local, task_local, policies_len,
                   api_pc, stop_accepted, pause_accepted>>
    /\ taskUnchanged
    /\ \E saved \in BOOLEAN :
           failed_count' = IF saved THEN failed_count ELSE failed_count + 1
    /\ UNCHANGED <<task_end_time, error_message, exc>>

\* after the loop: the task row is queried again
ExecAfterLoopQuery ==
    /\ epc = "after_loop"
    /\ task_local' = task_status
    /\ epc' = "after_loop_commit"
    /\ UNCHANGED <<stop_requested, task_status, crawler_instances,
                   running_tasks, crawler_local, policies_len, loop_i, api_pc,
                   stop_accepted, pause_accepted, detail_crawls, save_calls>>
    /\ taskUnchanged
    /\ UNCHANGED <<task_end_time, error_message, exc, failed_count>>

\* was_stopped: the task is still in the registry and its crawler's flag is
\* set
WasStopped == crawler_instances /\ stop_requested

\* after the loop: was_stopped decides between paused / cancelled and
\* "completed"; commit; the registry entry is removed
ExecAfterLoopCommit ==
    /\ epc = "after_loop_commit"
    /\ task_status' = IF WasStopped THEN StoppedStatus(task_local)
                      ELSE "completed"
    /\ task_local' = task_status'
    /\ crawler_local' = IF crawler_instances THEN "crawler" ELSE crawler_local
    /\ crawler_instances' = FALSE
    /\ epc' = "finally"
    /\ UNCHANGED <<stop_requested, running_tasks, policies_len, loop_i,
                   api_pc, stop_accepted, pause_accepted, detail_crawls,
                   save_calls>>
    /\ taskUnchanged
    /\ error_message' = IF WasStopped THEN StoppedMessage(task_local)
                        ELSE error_message
    /\ task_end_time' = Now
    /\ UNCHANGED <<exc, failed_count>>

\* the handler of the inner try: the task row is queried again
ExecExceptQuery ==
    /\ epc = "except"
    /\ task_local' = task_status
    /\ epc' = "except_commit"
    /\ UNCHANGED <<stop_requested, task_status, crawler_instances,
                   running_tasks, crawler_local, policies_len, loop_i, api_pc,
                   stop_accepted, pause_accepted, detail_crawls, save_calls>>
    /\ taskUnchanged
    /\ UNCHANGED <<task_end_time, error_message, exc, failed_count>>

\* the handler of the inner try: was_stopped decides between paused /
\* cancelled and "failed"; commit; the registry entry is removed
ExecExceptCommit ==
    /\ epc = "except_commit"
    /\ task_status' = ExceptStatus(WasStopped, task_local)
    /\ task_local' = task_status'
    /\ crawler_local' = IF crawler_instances THEN "crawler" ELSE "None"
    /\ crawler_instances' = FALSE
    /\ epc' = "finally"
    /\ UNCHANGED <<stop_requested, running_tasks, policies_len, loop_i,
                   api_pc, stop_accepted, pause_accepted, detail_crawls,
                   save_calls>>
    /\ taskUnchanged
    /\ error_message' = IF WasStopped THEN StoppedMessage(task_local)
                        ELSE sanitize_error_message(exc)
    /\ task_end_time' = Now
    /\ UNCHANGED <<exc, failed_count>>

\* the finally block: both registries are cleared, the thread ends
ExecFinally ==
    /\ epc = "finally"
    /\ running_tasks' = FALSE
    /\ crawler_instances' = FALSE
    /\ epc' = "finished"
    /\ UNCHANGED <<stop_requested, task_status, crawler_local, task_local,
                   policies_len, loop_i, api_pc, stop_accepted,
                   pause_accepted, detail_crawls, save_calls>>
    /\ taskUnchanged
    /\ UNCHANGED <<task_end_time, error_message, exc, failed_count>>

\* a task created by create_task; nothing started yet
InitTask ==
    /\ clock = 1
    /\ ClientIdle
    /\ CrawlIdle
    /\ data_sources = [i \in 1..MaxSources |-> TRUE]
    /\ max_policy_retries = 0
    /\ InitCounters
    /\ markdown_dir = [d \in {OutputDir} |-> {}]
    /\ files_dir = [d \in {OutputDir} |-> {}]
    /\ AllocIdle
    /\ TaskIdle

NextTask ==
    \/ StartTask
    \/ StopTaskCommit
    \/ StopTaskSignal
    \/ PauseTaskCommit
    \/ PauseTaskSignal
    \/ ExecStatusCheck
    \/ ExecRegister
    \/ ExecSearch
    \/ ExecSearchRaises
    \/ ExecLoopCheck
    \/ ExecRecord
    \/ ExecAfterLoopQuery
    \/ ExecAfterLoopCommit
    \/ ExecExceptQuery
    \/ ExecExceptCommit
    \/ ExecFinally

SpecTask == InitTask /\ [][NextTask]_vars

\* C6: once the executor thread has finished (and no stop_task / pause_task
\* call is still in progress), a task whose stop_task succeeded has status
\* "cancelled", and a task whose pause_task succeeded has status "paused".
C6_StopOrPauseStatusIsFinal ==
    (epc = "finished" /\ api_pc = "idle") =>
        /\ stop_accepted => task_status = "cancelled"
        /\ pause_accepted => task_status = "paused"

\* a stop_task that succeeded during the record loop, and the executor
\* finished with another status
C6_Witness_CancelledOverwritten ==
    /\ epc = "finished"
    /\ api_pc = "idle"
    /\ stop_accepted
    /\ stop_requested
    /\ task_status = "completed"

\* C7: with the stop flag set, the step the executor takes from the head of
\* the record loop leaves the loop: it starts no further record (no detail
\* crawl, no save).
C7_NoRecordStartedAfterFlag ==
    [][(stop_requested /\ epc = "loop_check") => epc' # "record"]_vars

\* a record was saved after stop_task had set the flag and the executor had
\* passed the head of the loop again
C7_Witness_SavedAfterStop ==
    /\ stop_accepted
    /\ stop_requested
    /\ epc = "loop_check"
    /\ crawler_local = "None"
    /\ save_calls = 2
    /\ detail_crawls = 1

(* ========== models.py: CrawlProgress under direct API calls ============ *)
\* the stage names callers use; "" stands for the default stage_name=None
StageNames == {"search_policies", "crawl_details"}

progressUnchanged ==
    UNCHANGED <<pc, data_sources, max_policy_retries, all_policies, seen_ids,
                src_idx, rec_idx, retry_count, result_policy, crawled,
                src_failed, prev_policies, processed, attempts, fetch_log,
                offered, stop_seen, stop_requested, counterVars, allocVars,
                taskVars, clientVars>>

\* progress.set_stage(name, description, total_count)
CallSetStage(name, total) ==
    /\ progress' = set_stage(progress, name, total)
    /\ UNCHANGED clock
    /\ progressUnchanged

\* the records reported to the stages so far
Reported ==
    LET told(n) == IF n \in DOMAIN progress.stages
                   THEN progress.stages[n].completed_count
                        + progress.stages[n].failed_count
                   ELSE 0
    IN  told("search_policies") + told("crawl_details")

\* progress.update_stage_progress(name, completed, failed)
CallUpdateStageProgress(name, completed, failed) ==
    /\ Reported + completed + failed <= MaxCount
    /\ progress' = update_stage_progress(progress, name, completed, failed)
    /\ UNCHANGED clock
    /\ progressUnchanged

\* progress.complete_stage(name, success)
CallCompleteStage(name, success) ==
    /\ progress' = complete_stage(progress, name, success)
    /\ UNCHANGED clock
    /\ progressUnchanged

\* time passes between two calls
Tick ==
    /\ clock < MaxClock
    /\ clock' = clock + 1
    /\ UNCHANGED progress
    /\ progressUnchanged

\* a CrawlProgress() just constructed
InitProgress ==
    /\ clock = 1
    /\ ClientIdle
    /\ CrawlIdle
    /\ data_sources = [i \in 1..MaxSources |-> TRUE]
    /\ max_policy_retries = 0
    /\ InitCounters
    /\ markdown_dir = [d \in {OutputDir} |-> {}]
    /\ files_dir = [d \in {OutputDir} |-> {}]
    /\ AllocIdle
    /\ TaskIdle

NextProgress ==
    \/ \E name \in StageNames, total \in 0..MaxTotal :
           CallSetStage(name, total)
    \/ \E name \in StageNames \cup {""}, r \in {<<1, 0>>, <<0, 1>>} :
           CallUpdateStageProgress(name, r[1], r[2])
    \/ \E name \in StageNames \cup {""}, success \in BOOLEAN :
           CallCompleteStage(name, success)
    \/ Tick

SpecProgress == InitProgress /\ [][NextProgress]_vars

\* the step is a call update_stage_progress(name, completed, failed)
IsUpdateCall ==
    \E name \in StageNames \cup {""}, completed, failed \in 0..1 :
        progress' = update_stage_progress(progress, name, completed, failed)

\* the overall counters equal those of the crawl_details stage
MirrorsDetails(p) ==
    /\ p.completed_count = p.stages["crawl_details"].completed_count
    /\ p.failed_count = p.stages["crawl_details"].failed_count

\* C11: when crawl_details is the current stage, every call of
\* update_stage_progress leaves CrawlProgress.completed_count and
\* failed_count equal to the crawl_details stage's counts.
C11_OverallCountsMirrorDetails ==
    [][(progress.current_stage = "crawl_details" /\ IsUpdateCall) =>
           MirrorsDetails(progress')]_vars

\* crawl_details is current, a record was reported to it, and the overall
\* counter did not follow
C11_Witness_CountNotMirrored ==
    /\ progress.current_stage = "crawl_details"
    /\ progress.stages["crawl_details"].total_count = 0
    /\ progress.stages["crawl_details"].completed_count = 1
    /\ progress.completed_count = 0

\* C12: in every step, the status of every stage either stays, or moves
\* pending -> running, or moves running -> completed / failed; so a stage in
\* a terminal status keeps it.
C12_StageStatusOnlyMovesForward ==
    [][\A n \in DOMAIN progress.stages :
           LET old == progress.stages[n].status
               new == progress'.stages[n].status
           IN  \/ new = old
               \/ old = "pending" /\ new = "running"
               \/ old = "running" /\ new \in {"completed", "failed"}]_vars

\* a stage that was completed at time 1 and is failed at time 2
C12_Witness_TerminalStatusRewritten ==
    /\ "crawl_details" \in DOMAIN progress.stages
    /\ progress.stages["crawl_details"].status = "failed"
    /\ progress.stages["crawl_details"].start_time = 1
    /\ progress.stages["crawl_details"].end_time = 2
    /\ progress.stages["crawl_details"].completed_count = 1

\* C13: a call set_stage(name) makes name the current stage; on a stage
\* that did not exist (or was pending) the stage is running afterwards with
\* start_time the time of the call; on a stage that is running, its status,
\* start_time and counters are what they were.
C13_SetStageStartsStageOnce ==
    [][\A name \in StageNames :
           (\E total \in 0..MaxTotal :
                progress' = set_stage(progress, name, total)) =>
               /\ progress'.current_stage = name
               /\ (name \notin DOMAIN progress.stages) =>
                      /\ progress'.stages[name].status = "running"
                      /\ progress'.stages[name].start_time = clock
                      /\ progress'.stages[name].completed_count = 0
                      /\ progress'.stages[name].failed_count = 0
               /\ (name \in DOMAIN progress.stages =>
                      (/\ progress.stages[name].status = "pending" =>
                             /\ progress'.stages[name].status = "running"
                             /\ progress'.stages[name].start_time = clock
                       /\ progress.stages[name].status = "running" =>
                             progress'.stages[name] = progress.stages[name]))
      ]_vars

\* search_policies was started at time 1, crawl_details at time 2, and
\* set_stage("search_policies") was then called again: it is current, still
\* with start_time 1 and its count
C13_Witness_SetStageAgainWhileRunning ==
    /\ clock = 2
    /\ DOMAIN progress.stages = StageNames
    /\ progress.stages["crawl_details"].start_time = 2
    /\ progress.current_stage = "search_policies"
    /\ progress.stages["search_policies"].status = "running"
    /\ progress.stages["search_policies"].start_time = 1
    /\ progress.stages["search_policies"].completed_count = 1

ServiceIdle ==
    /\ clock = 1
    /\ CrawlIdle
    /\ data_sources = [i \in 1..MaxSources |-> TRUE]
    /\ max_policy_retries = 0
    /\ InitCounters
    /\ markdown_dir = [d \in {OutputDir} |-> {}]
    /\ files_dir = [d \in {OutputDir} |-> {}]
    /\ AllocIdle
    /\ TaskIdle

RequestMethods == {"search_policies", "get_policy_detail", "download_file"}

\* the ways session.get / raise_for_status / the parsing after it can raise;
\* "header_parsing" is urllib3's HeaderParsingError, "no_boundary" an error
\* whose text names the defect NoBoundaryInMultipartDefect
ErrorKinds == {"timeout", "connection", "other", "header_parsing",
               "no_boundary"}

\* `"HeaderParsingError" in type(e).__name__`
TypeNamesHeaderParsing(kind) == kind = "header_parsing"

\* `"HeaderParsingError" in str(e)`: the text of a HeaderParsingError lists
\* its defects and the unparsed data, not the name of its class
TextNamesHeaderParsing(kind) == FALSE

\* `"NoBoundaryInMultipartDefect" in str(e)`
TextNamesNoBoundary(kind) == kind = "no_boundary"

\* where an attempt of download_file can raise: in session.get or
\* raise_for_status, or inside the block that opens and writes save_path
RaiseStages == {"request", "write"}

\* a handler that lets any error pass when save_path holds data
Tolerated_AnyPartialFile(kind, stage, size) == size = 1

\* download_file returns True from an exception handler: the handler around
\* the write block looks at the text of the error, the handler of the loop
\* body (reached by the re-raise as well) at its type name and its text;
\* both require save_path to exist with a size above zero
Tolerated(kind, stage, size) ==
    \/ /\ stage = "write"
       /\ size = 1
       /\ TextNamesHeaderParsing(kind) \/ TextNamesNoBoundary(kind)
    \/ /\ TypeNamesHeaderParsing(kind) \/ TextNamesNoBoundary(kind)
       /\ size = 1

\* what the method returns when an attempt went through
SuccessValue(fn) ==
    CASE fn = "search_policies" -> "result"
      [] fn = "get_policy_detail" -> "detail"
      [] fn = "download_file" -> "True"

\* what the method returns when it gives up
FailureValue(fn) ==
    CASE fn = "search_policies" -> "None"
      [] fn = "get_policy_detail" -> "empty"
      [] fn = "download_file" -> "False"

\* handlers that catch the two network errors only
Handled_NetworkOnly(fn, kind) == kind \in {"timeout", "connection"}

\* the except clauses of the loop body: search_policies has one for Timeout,
\* one for ConnectionError and one for Exception; the other two methods have
\* `except Exception`
Handled(fn, kind) ==
    \/ fn = "search_policies" /\ (kind \in {"timeout", "connection"}
                                    \/ kind \in ErrorKinds)
    \/ fn \in {"get_policy_detail", "download_file"}

clientUnchanged ==
    UNCHANGED <<crawlVars, counterVars, allocVars, taskVars, clock, mergeVars,
                metaVars, cleanVars, callbackVars, backendVars>>

\* a check that replaces the session one call late
ShouldRotate_Late(count, interval) == count > interval

\* _check_and_rotate_session: `if self.request_count >= interval`
ShouldRotate(count, interval) == count >= interval

\* what kuaidaili_client.get_dps(1) can do: hand out a proxy other than the
\* cached one, return an empty list, raise
ProviderOutcomes ==
    {<<"proxy", id>> : id \in 1..MaxProxies} \cup {<<"empty", 0>>, <<"raises", 0>>}

\* _get_proxy(force_new) of a client that uses proxies and has a provider:
\* current_proxy after the call (which is also the proxy returned, 0 for
\* None) when the provider answers with o
GetProxy(force_new, o) ==
    IF force_new \/ current_proxy = 0
    THEN CASE o[1] = "raises" -> 0
           [] o[1] = "empty" -> current_proxy
           [] o[1] = "proxy" -> o[2]
    ELSE current_proxy

\* the first lines of an attempt: `proxies = self._get_proxy(force_new=(retry > 0))`
AttemptProxy(o) ==
    /\ o[1] = "proxy" => o[2] # current_proxy
    /\ (retry = 0 /\ current_proxy # 0) => o[1] = "empty"
    /\ current_proxy' = GetProxy(retry > 0, o)
    /\ used_proxy' = current_proxy'
    /\ acquired' = ((retry > 0 \/ current_proxy = 0) /\ o[1] = "proxy")

\* a sleep of the base delay whatever the attempt
WaitTime_Constant(delay, r) == delay

\* `wait_time = self.config.get("retry_delay", 5) * (retry + 1)`
WaitTime(delay, r) == delay * (r + 1)

\* the method is entered: the session check is made, max_retries is read
\* from the config, the loop starts
ClientCall(fn, mr) ==
    /\ call_pc \in {"idle", "done"}
    /\ IF ShouldRotate(request_count + 1, session_rotate_interval)
       THEN /\ session' = 1 - session
            /\ request_count' = 0
            /\ calls_since' = 0
       ELSE /\ request_count' = request_count + 1
            /\ calls_since' = calls_since + 1
            /\ UNCHANGED session
    /\ used_proxy' = 0
    /\ acquired' = FALSE
    /\ wait_time' = 0
    /\ UNCHANGED <<session_rotate_interval, retry_delay, current_proxy>>
    /\ call_pc' = "loop"
    /\ call_fn' = fn
    /\ max_retries' = mr
    /\ retry' = 0
    /\ http_attempts' = 0
    /\ last_error' = "none"
    /\ call_ret' = "unset"
    /\ raised' = "none"
    /\ file_size' \in (IF fn = "download_file" THEN {0, 1} ELSE {0})
    /\ clientUnchanged

\* range(max_retries) is used up: the return after the loop
LoopExhausted ==
    /\ call_pc = "loop"
    /\ retry >= max_retries
    /\ call_ret' = FailureValue(call_fn)
    /\ call_pc' = "done"
    /\ UNCHANGED <<call_fn, max_retries, retry, http_attempts, last_error,
                   raised, file_size, session_rotate_interval, retry_delay,
                   request_count, session, calls_since, current_proxy,
                   used_proxy, acquired, wait_time>>
    /\ clientUnchanged

\* what an attempt leaves alone
attemptUnchanged ==
    UNCHANGED <<call_fn, max_retries, session_rotate_interval, retry_delay,
                request_count, session, calls_since>>

\* one iteration whose try body runs to its return
AttemptSucceeds(o) ==
    /\ call_pc = "loop"
    /\ retry < max_retries
    /\ AttemptProxy(o)
    /\ wait_time' = 0
    /\ http_attempts' = http_attempts + 1
    /\ last_error' = "none"
    /\ raised' = "none"
    /\ file_size' = (IF call_fn = "download_file" THEN 1 ELSE file_size)
    /\ call_ret' = SuccessValue(call_fn)
    /\ call_pc' = "done"
    /\ UNCHANGED retry
    /\ attemptUnchanged
    /\ clientUnchanged

\* download_file: the response arrived and the saved file is empty
AttemptEmptyFile(o) ==
    /\ call_pc = "loop"
    /\ call_fn = "download_file"
    /\ retry < max_retries
    /\ AttemptProxy(o)
    /\ wait_time' = 0
    /\ http_attempts' = http_attempts + 1
    /\ last_error' = "empty_file"
    /\ raised' = "none"
    /\ file_size' = 0
    /\ call_ret' = "False"
    /\ call_pc' = "done"
    /\ UNCHANGED retry
    /\ attemptUnchanged
    /\ clientUnchanged

\* one iteration whose try body raises, leaving save_path with `size`:
\* download_file may take the error for a finished download; otherwise the
\* handler sleeps and lets the loop go on, or returns the failure value on
\* the last iteration
AttemptFails(kind, stage, size, o) ==
    /\ call_pc = "loop"
    /\ retry < max_retries
    /\ AttemptProxy(o)
    /\ call_fn = "download_file" \/ stage = "request"
    /\ stage = "request" => size = file_size
    /\ http_attempts' = http_attempts + 1
    /\ raised' = kind
    /\ file_size' = size
    /\ IF call_fn = "download_file" /\ Tolerated(kind, stage, size)
       THEN /\ last_error' = "none"
            /\ call_ret' = "True"
            /\ call_pc' = "done"
            /\ wait_time' = 0
            /\ UNCHANGED retry
       ELSE /\ last_error' = kind
            /\ IF Handled(call_fn, kind)
               THEN IF retry < max_retries - 1
                    THEN /\ wait_time' = WaitTime(retry_delay, retry)
                         /\ retry' = retry + 1
                         /\ UNCHANGED <<call_pc, call_ret>>
                    ELSE /\ call_ret' = FailureValue(call_fn)
                         /\ call_pc' = "done"
                         /\ wait_time' = 0
                         /\ UNCHANGED retry
               ELSE /\ call_ret' = "raised"
                    /\ call_pc' = "done"
                    /\ wait_time' = 0
                    /\ UNCHANGED retry
    /\ attemptUnchanged
    /\ clientUnchanged

\* a client just constructed, with its settings
InitClient ==
    /\ ServiceIdle
    /\ MergeIdle
    /\ MetaIdle
    /\ CleanIdle
    /\ CallbackIdle
    /\ BackendIdle
    /\ NewClient
    /\ session_rotate_interval \in 1..MaxInterval
    /\ retry_delay \in 1..MaxDelay

NextClient ==
    \/ \E fn \in RequestMethods, mr \in 0..MaxHttpRetries : ClientCall(fn, mr)
    \/ LoopExhausted
    \/ \E o \in ProviderOutcomes : AttemptSucceeds(o)
    \/ \E o \in ProviderOutcomes : AttemptEmptyFile(o)
    \/ \E kind \in ErrorKinds, stage \in RaiseStages, size \in {0, 1},
          o \in ProviderOutcomes :
           AttemptFails(kind, stage, size, o)

SpecClient == InitClient /\ [][NextClient]_vars

\* C17: a call of search_policies, get_policy_detail or download_file makes
\* at most max_retries HTTP attempts, never raises, and when its attempts
\* all failed it returns its failure value (None, the empty-content result,
\* False); only a call whose latest attempt went through returns otherwise.
C17_BoundedAttemptsThenFailureValue ==
    /\ http_attempts <= max_retries
    /\ call_ret # "raised"
    /\ call_pc = "done" =>
           \/ call_ret = FailureValue(call_fn)
           \/ /\ call_ret = SuccessValue(call_fn)
              /\ last_error = "none"
              /\ http_attempts >= 1
    /\ (call_pc = "done" /\ last_error \in ErrorKinds) =>
           /\ call_ret = FailureValue(call_fn)
           /\ http_attempts = max_retries

\* search_policies with max_retries >= 2 whose attempts all failed, the last
\* one with an error that is neither a timeout nor a connection error
C17_Witness_AllAttemptsFailed ==
    /\ call_pc = "done"
    /\ call_fn = "search_policies"
    /\ max_retries >= 2
    /\ http_attempts = max_retries
    /\ last_error = "other"
    /\ call_ret = "None"

\* the errors the claim speaks of: a malformed-header or malformed-trailer
\* parsing error of the transport library
ParsingErrors == {"header_parsing", "no_boundary"}

\* C21: an attempt of download_file that raised is reported as success
\* exactly when the error is a header/trailer parsing error of the transport
\* library and save_path exists with a nonzero size afterwards; with a
\* missing or empty file, or with any other error (partial file or not), the
\* call does not return True from that attempt.
C21_ParsingErrorToleratedIffFileNonEmpty ==
    [][(/\ call_fn' = "download_file"
        /\ http_attempts' = http_attempts + 1
        /\ raised' # "none")
       => ((call_ret' = "True") <=>
              (raised' \in ParsingErrors /\ file_size' = 1))]_vars

\* a first attempt that raised HeaderParsingError from the request itself
\* while save_path held data, and the call returned True
C21_Witness_ParsingErrorWithFile ==
    /\ call_pc = "done"
    /\ call_fn = "download_file"
    /\ http_attempts = 1
    /\ raised = "header_parsing"
    /\ file_size = 1
    /\ call_ret = "True"

\* C25: the first attempt of a call goes through the cached proxy when
\* there is one, and every attempt after a failed attempt goes through a
\* proxy the provider handed out for that attempt, which is not the proxy of
\* the attempt before.
C25_RetryUsesFreshProxy ==
    [][(http_attempts' = http_attempts + 1) =>
          /\ (http_attempts = 0 /\ current_proxy # 0) =>
                 used_proxy' = current_proxy
          /\ http_attempts > 0 =>
                 /\ acquired'
                 /\ used_proxy' # 0
                 /\ used_proxy' # used_proxy]_vars

\* a second attempt that went through a proxy acquired for it
C25_Witness_RetryWithNewProxy ==
    /\ http_attempts = 2
    /\ acquired
    /\ used_proxy # 0
    /\ current_proxy = used_proxy

\* a step that enters a request method
IsClientCall == call_pc \in {"idle", "done"} /\ call_pc' = "loop"

\* C26: with session_rotate_interval = N >= 1 the session is replaced on
\* exactly every N-th call of a request method since it was last replaced
\* (and at no other step), request_count is 0 right after a replacement,
\* and after the check of each call 0 <= request_count < N.
C26_SessionReplacedEveryNthCall ==
    [][IF IsClientCall
       THEN /\ (session' # session) <=>
                   (calls_since + 1 = session_rotate_interval)
            /\ (session' # session) => request_count' = 0
            /\ 0 <= request_count'
            /\ request_count' < session_rotate_interval
       ELSE UNCHANGED <<session, request_count>>]_vars

\* interval 2: the second call replaced the session
C26_Witness_SecondCallRotated ==
    /\ session_rotate_interval = 2
    /\ call_pc = "loop"
    /\ session = 1
    /\ request_count = 0
    /\ calls_since = 0

\* C27: after the k-th failed attempt of a call, k < max_retries, the client
\* sleeps retry_delay * k seconds before the next attempt; after the last
\* failed attempt it does not sleep.
C27_LinearBackoffBetweenAttempts ==
    [][(http_attempts' = http_attempts + 1 /\ last_error' \in ErrorKinds) =>
          wait_time' = IF http_attempts' < max_retries
                       THEN retry_delay * http_attempts'
                       ELSE 0]_vars

\* base delay 2: the second of more than two attempts failed and the
\* client slept 4 seconds
C27_Witness_SecondBackoffDoubled ==
    /\ call_pc = "loop"
    /\ retry_delay = 2
    /\ http_attempts = 2
    /\ max_retries > 2
    /\ last_error \in ErrorKinds
    /\ wait_time = 4

(* ====== crawler.py: detail-page metadata merged into a listed record ====== *)
\* a field value is the sequence of its characters; "nian", "yue", "ri" stand
\* for the three date characters, "jia" and "ji" for two other characters

Digits == {"0", "1", "2", "3", "5"}

\* `any(keyword in value for keyword in [nian, yue, ri])`
HasDateMark(v) == \E i \in 1..Len(v) : v[i] \in {"nian", "yue", "ri"}

\* is_date_format: a date character or at least 8 characters
IsDateFormat(v) == HasDateMark(v) \/ Len(v) >= 8

\* the separators of the strptime formats _parse_date tries, in order
DateFormats ==
    <<  <<"nian", "yue", <<"ri">>>>, <<"-", "-", <<>>>>,
        <<"/", "/", <<>>>>, <<".", ".", <<>>>>  >>

AllDigits(v) == \A i \in 1..Len(v) : v[i] \in Digits

\* datetime.strptime(v, fmt) succeeds with a month of b and a day of c digits
Parses(v, fmt, b, c) ==
    /\ Len(v) = 6 + b + c + Len(fmt[3])
    /\ AllDigits(SubSeq(v, 1, 4))
    /\ v[5] = fmt[1]
    /\ AllDigits(SubSeq(v, 6, 5 + b))
    /\ v[6 + b] = fmt[2]
    /\ AllDigits(SubSeq(v, 7 + b, 6 + b + c))
    /\ SubSeq(v, 7 + b + c, Len(v)) = fmt[3]

Pad2(v) == IF Len(v) = 1 THEN <<"0">> \o v ELSE v

\* _parse_date(v) followed by strftime("%Y-%m-%d"), or v as it is when no
\* format matches (the values here carry no surrounding blanks to strip)
NormalizeDate(v) ==
    LET fits == {x \in (1..Len(DateFormats)) \X (1..2) \X (1..2) :
                     Parses(v, DateFormats[x[1]], x[2], x[3])}
    IN  IF fits = {}
        THEN v
        ELSE LET x == CHOOSE y \in fits : TRUE
             IN  SubSeq(v, 1, 4) \o <<"-">>
                     \o Pad2(SubSeq(v, 6, 5 + x[2])) \o <<"-">>
                     \o Pad2(SubSeq(v, 7 + x[2], 6 + x[2] + x[3]))

\* `if metadata:` ... the seven updates of the record
MergeMetadata(p, meta) ==
    [p EXCEPT
        !.pub_date =
            IF /\ meta.pub_date # <<>>
               /\ IsDateFormat(meta.pub_date)
               /\ (p.pub_date = <<>> \/ ~HasDateMark(p.pub_date))
            THEN NormalizeDate(meta.pub_date) ELSE @,
        !.publisher = IF meta.publisher # <<>> THEN meta.publisher ELSE @,
        !.level = IF meta.level # <<>> THEN meta.level ELSE @,
        !.validity = IF meta.validity # <<>> THEN meta.validity ELSE @,
        !.effective_date =
            IF meta.effective_date # <<>>
            THEN NormalizeDate(meta.effective_date) ELSE @,
        !.category = IF meta.category # <<>> THEN meta.category ELSE @,
        !.doc_number =
            IF meta.doc_number # <<>> /\ p.doc_number = <<>>
            THEN meta.doc_number ELSE @]

\* the chain of `startswith` tests: the institution a document number
\* points to, <<>> when no test matches. A prefix is one character of the
\* model: "zrzf" for the prefix of the present ministry ("zrzyb"), "gtzf"
\* and "gtdcbf" for the two prefixes of the former ministry ("gtzyb"), and
\* the former ministry's own name, which _extract_metadata (site "page")
\* tests as well and crawl_single_policy (site "record") does not
InstitutionOf(site, number) ==
    CASE number = <<>> -> <<>>
      [] number # <<>> /\ number[1] = "zrzf" -> <<"zrzyb">>
      [] number # <<>> /\ number[1] \in {"gtzf", "gtdcbf"} -> <<"gtzyb">>
      [] number # <<>> /\ number[1] = "gtzyb" /\ site = "page" -> <<"gtzyb">>
      [] OTHER -> <<>>

\* the fallback after the merge: publisher and level inferred from the
\* prefix of doc_number
InferPublisher(p) ==
    IF p.doc_number # <<>> /\ p.publisher = <<>>
           /\ InstitutionOf("record", p.doc_number) # <<>>
    THEN [p EXCEPT !.publisher = InstitutionOf("record", p.doc_number),
                   !.level = IF p.level = <<>>
                             THEN InstitutionOf("record", p.doc_number)
                             ELSE @]
    ELSE p

MetaFields == {"pub_date", "publisher", "level", "validity",
               "effective_date", "category", "doc_number"}

dateCn == <<"2", "0", "2", "3", "nian", "5", "yue", "1", "ri">>
dateIso == <<"2", "0", "2", "3", "-", "0", "5", "-", "0", "1">>
grade == <<"jia", "ji">>
longText == <<"t", "e", "x", "t", "t", "e", "x", "t">>

\* the fields of a record as a listing parser can leave them
ListedRecords ==
    [pub_date : {<<>>, grade, dateIso, dateCn},
     publisher : {<<>>, <<"listed">>},
     level : {<<>>, <<"listed">>},
     validity : {<<>>, <<"listed">>},
     effective_date : {<<>>, dateIso},
     category : {<<>>, <<"listed">>},
     doc_number : {<<>>, <<"zrzf", "1">>}]

\* the metadata a detail page can give
DetailMetadata ==
    [pub_date : {<<>>, grade, dateCn, longText},
     publisher : {<<>>, <<"detail">>},
     level : {<<>>, <<"detail">>},
     validity : {<<>>, <<"detail">>},
     effective_date : {<<>>, dateCn},
     category : {<<>>, <<"detail">>},
     doc_number : {<<>>, <<"gtzf", "2">>}]

\* crawl_single_policy from `metadata = detail_result.get("metadata", {})`
\* to the end of the fallback
MergeDetail ==
    /\ merge_pc = "fetched"
    /\ policy_rec' = InferPublisher(MergeMetadata(policy_rec, metadata))
    /\ merge_pc' = "merged"
    /\ UNCHANGED <<listed, metadata, retryVars, metaVars, cleanVars,
                   callbackVars, backendVars>>
    /\ UNCHANGED <<crawlVars, counterVars, allocVars, taskVars, clock>>

InitMerge ==
    /\ ServiceIdle
    /\ RetryIdle
    /\ MetaIdle
    /\ CleanIdle
    /\ CallbackIdle
    /\ BackendIdle
    /\ merge_pc = "fetched"
    /\ listed \in ListedRecords
    /\ policy_rec = listed
    /\ metadata \in DetailMetadata

NextMerge == MergeDetail

SpecMerge == InitMerge /\ [][NextMerge]_vars

\* a validated date: the acceptance rule for a publish-date value
Unchangeable(f, old, meta) ==
    \/ f # "pub_date"
    \/ IsDateFormat(old)
    \/ ~IsDateFormat(meta)

\* C18: after the merge, every field of the record that was non-empty before
\* it is unchanged, except pub_date when the record's value was not a
\* validated date and the metadata's value is one.
C18_NonEmptyFieldsKept ==
    merge_pc = "merged" =>
        \A f \in MetaFields :
            (listed[f] # <<>> /\ Unchangeable(f, listed[f], metadata[f])) =>
                policy_rec[f] = listed[f]

\* a record whose listing gave a publisher, overwritten by the detail
\* page's; every other field as listed
C18_Witness_ListedPublisherOverwritten ==
    /\ merge_pc = "merged"
    /\ listed.publisher = <<"listed">>
    /\ policy_rec.publisher = <<"detail">>
    /\ \A f \in MetaFields \ {"publisher"} : policy_rec[f] = listed[f]

(* ======= api_client.py: _extract_metadata; the listing parsers' dates ======= *)
\* a label is the set of the searched phrases it contains; a value is the
\* sequence of its characters

\* metadata.get(f): "" for a key that is not set
Get(m, f) == IF f \in DOMAIN m THEN m[f] ELSE <<>>

\* an assignment that ignores what the field holds
SetIfEmpty_Always(m, f, v) == (f :> v) @@ m

\* `if f not in metadata or not metadata.get(f): metadata[f] = value`
SetIfEmpty(m, f, v) == IF Get(m, f) = <<>> THEN (f :> v) @@ m ELSE m

\* a test every value passes
AcceptsPubDate_Any(value) == TRUE

\* the test on a publish-date value: a date character or 8 characters
AcceptsPubDate(value) == HasDateMark(value) \/ Len(value) >= 8

\* the labels of a page: document number, publisher, category, publish
\* date, publish date naming a level as well, validity level, effective
\* date, status
Labels ==
    {{"wenhao"}, {"fabujigou", "jigou", "fabu"}, {"fenlei"},
     {"faburiqi", "fabu"}, {"faburiqi", "fabu", "jibie"},
     {"xiaolijibie", "xiaoli", "jibie"}, {"shengxiaoriqi"},
     {"shixiaozhuangtai", "shixiao", "zhuangtai"}}

\* a document number of 8 characters with the ministry's prefix
docNumber == <<"zrzf", "[", "2", "0", "2", "3", "]", "1">>

\* the values of a page
Values == {<<>>, grade, dateCn, docNumber}

\* the condition of the publish-date branch
IsPubDateLabel(l) ==
    /\ l \cap {"chengwenshijian", "shengchengriqi", "faburiqi"} # {}
    /\ "xiaoli" \notin l
    /\ "jibie" \notin l

IsPublisherLabel(l) == "fabujigou" \in l \/ ("jigou" \in l /\ "fabu" \in l)

\* one label/value pair processed by the chain of the part g
ApplyPair(g, m, l, v) ==
    CASE g = "group1" ->
            IF l \cap {"fawenzihao", "wenhao"} # {}
            THEN SetIfEmpty(m, "doc_number", v)
            ELSE IF IsPublisherLabel(l)
            THEN SetIfEmpty(SetIfEmpty(m, "publisher", v), "level", v)
            ELSE IF l \cap {"yewuleixing", "fenlei"} # {}
            THEN SetIfEmpty(m, "category", v)
            ELSE m
      [] g = "group2" ->
            IF IsPubDateLabel(l)
            THEN IF AcceptsPubDate(v) THEN SetIfEmpty(m, "pub_date", v)
                 ELSE m
            ELSE IF "xiaolijibie" \in l \/ ("jibie" \in l /\ "xiaoli" \in l)
            THEN SetIfEmpty(m, "validity", v)
            ELSE IF l \cap {"shengxiaoriqi", "shishiriqi"} # {}
            THEN SetIfEmpty(m, "effective_date", v)
            ELSE IF "shixiaozhuangtai" \in l
                        \/ ("zhuangtai" \in l /\ "shixiao" \in l)
            THEN SetIfEmpty(m, "validity", v)
            ELSE m
      [] g = "table" ->
            IF IsPubDateLabel(l)
            THEN IF AcceptsPubDate(v) THEN SetIfEmpty(m, "pub_date", v)
                 ELSE m
            ELSE IF IsPublisherLabel(l)
            THEN SetIfEmpty(SetIfEmpty(m, "publisher", v), "level", v)
            ELSE IF l \cap {"xiaolijibie", "jibie"} # {}
            THEN SetIfEmpty(m, "validity", v)
            ELSE IF l \cap {"yewuleixing", "fenlei"} # {}
            THEN SetIfEmpty(m, "category", v)
            ELSE IF l \cap {"shengxiaoriqi", "shishiriqi"} # {}
            THEN SetIfEmpty(m, "effective_date", v)
            ELSE m

\* a fallback that does not look at the publisher already found
InferFromDocNumber_Overwrite(m) ==
    IF InstitutionOf("page", Get(m, "doc_number")) # <<>>
    THEN ("publisher" :> InstitutionOf("page", Get(m, "doc_number")))
         @@ ("level" :> InstitutionOf("page", Get(m, "doc_number"))) @@ m
    ELSE m

\* the fallback at the end: publisher and level from the doc_number prefix
InferFromDocNumber(m) ==
    IF /\ Get(m, "doc_number") # <<>>
       /\ Get(m, "publisher") = <<>>
       /\ InstitutionOf("page", Get(m, "doc_number")) # <<>>
    THEN ("publisher" :> InstitutionOf("page", Get(m, "doc_number")))
         @@ ("level" :> InstitutionOf("page", Get(m, "doc_number"))) @@ m
    ELSE m

metaUnchanged ==
    UNCHANGED <<crawlVars, counterVars, allocVars, taskVars, clock, retryVars,
                mergeVars, cleanVars, callbackVars, backendVars>>

\* one iteration of the loop over a label row (or over the table rows)
ExtractPair(l, v) ==
    /\ ex_pc \in {"group1", "group2", "table"}
    /\ n_pairs < MaxPairs
    /\ md' = ApplyPair(ex_pc, md, l, v)
    /\ n_pairs' = n_pairs + 1
    /\ last_pair' = <<l, v>>
    /\ UNCHANGED <<ex_pc, row_pub_date>>
    /\ metaUnchanged

\* a label row is used up: the second row follows the first, the table
\* follows when `not metadata`
NextGroup ==
    /\ \/ ex_pc = "group1" /\ ex_pc' = "group2"
       \/ ex_pc = "group2" /\ DOMAIN md = {} /\ ex_pc' = "table"
    /\ n_pairs' = 0
    /\ last_pair' = <<>>
    /\ UNCHANGED <<md, row_pub_date>>
    /\ metaUnchanged

\* the end of _extract_metadata: the fallback, `return metadata`
FinishExtract ==
    /\ \/ ex_pc = "group2" /\ DOMAIN md # {}
       \/ ex_pc = "table"
    /\ md' = InferFromDocNumber(md)
    /\ ex_pc' = "done"
    /\ UNCHANGED <<n_pairs, row_pub_date, last_pair>>
    /\ metaUnchanged

\* one row of a listing's table: the publish-date and the effective-date
\* branches of _parse_html_results and FMNRParser.parse
ListingRow(l, v) ==
    /\ ex_pc = "listing"
    /\ n_pairs < MaxPairs
    /\ row_pub_date' =
           IF l \cap {"fawenzihao", "wenhao"} # {} THEN row_pub_date
           ELSE IF /\ l \cap {"chengwenshijian", "shengchengriqi",
                              "faburiqi", "gongburiqi"} # {}
                   /\ ~("xiaoli" \in l \/ "jibie" \in l)
           THEN IF AcceptsPubDate(v) THEN v ELSE row_pub_date
           ELSE IF l \cap {"shishiriqi", "shengxiaoriqi"} # {}
           THEN IF row_pub_date = <<>> THEN v ELSE row_pub_date
           ELSE row_pub_date
    /\ n_pairs' = n_pairs + 1
    /\ last_pair' = <<l, v>>
    /\ UNCHANGED <<ex_pc, md>>
    /\ metaUnchanged

InitMetadata ==
    /\ ServiceIdle
    /\ RetryIdle
    /\ MergeIdle
    /\ CleanIdle
    /\ CallbackIdle
    /\ BackendIdle
    /\ ex_pc \in {"group1", "listing"}
    /\ n_pairs = 0
    /\ md = <<>>
    /\ row_pub_date = <<>>
    /\ last_pair = <<>>

NextMetadata ==
    \/ \E l \in Labels, v \in Values : ExtractPair(l, v)
    \/ NextGroup
    \/ FinishExtract
    \/ \E l \in Labels, v \in Values : ListingRow(l, v)

SpecMetadata == InitMetadata /\ [][NextMetadata]_vars

\* the label is a publish-date label for the part that processes it
PublishDateLabel(l) == "faburiqi" \in l /\ "xiaoli" \notin l /\ "jibie" \notin l

\* C19: a value under a publish-date label that contains none of the three
\* date characters and is shorter than 8 characters is rejected: pub_date
\* is what it was before the pair; a value that becomes pub_date under such
\* a label has a date character or at least 8 characters.
C19_PubDateOnlyFromDateLikeValue ==
    [][\A l \in Labels, v \in Values :
           (last_pair' = <<l, v>> /\ PublishDateLabel(l)
                /\ ex_pc \in {"group2", "table", "listing"}) =>
               /\ (~HasDateMark(v) /\ Len(v) < 8) =>
                      /\ Get(md', "pub_date") = Get(md, "pub_date")
                      /\ row_pub_date' = row_pub_date
               /\ Get(md', "pub_date") # Get(md, "pub_date") =>
                      /\ Get(md', "pub_date") = v
                      /\ HasDateMark(v) \/ Len(v) >= 8
               /\ row_pub_date' # row_pub_date =>
                      /\ row_pub_date' = v
                      /\ HasDateMark(v) \/ Len(v) >= 8]_vars

\* the second label row: the pair processed is a publish-date label with the
\* two characters that carry no date mark, and pub_date is not set
C19_Witness_ShortValueRejected ==
    /\ ex_pc = "group2"
    /\ n_pairs = 1
    /\ last_pair = <<{"faburiqi", "fabu"}, grade>>
    /\ "pub_date" \notin DOMAIN md

\* C20: in _extract_metadata, a canonical field that holds a non-empty value
\* holds the same value after every later step of the call.
C20_FirstNonEmptyValueWins ==
    [][(ex_pc \in {"group1", "group2", "table"}) =>
           (\A f \in MetaFields :
                Get(md, f) # <<>> => Get(md', f) = Get(md, f))]_vars

\* the first label row: doc_number was set by one pair, and the pair
\* processed last carries another non-empty value for it
C20_Witness_LaterPairIgnored ==
    /\ ex_pc = "group1"
    /\ n_pairs = 2
    /\ last_pair = <<{"wenhao"}, grade>>
    /\ Get(md, "doc_number") = docNumber

\* C30: the inference at the end of _extract_metadata changes publisher
\* only when doc_number is non-empty and publisher is empty: a doc_number
\* that starts with a prefix of the table then gives the institution of that
\* prefix; a publisher already set stays as it is, and without a doc_number
\* or with one that matches no prefix publisher stays empty.
C30_PublisherInferredOnlyWhenAbsent ==
    [][(ex_pc # "done" /\ ex_pc' = "done") =>
          LET number == Get(md, "doc_number")
              prefix == IF number = <<>> THEN "" ELSE number[1]
          IN  Get(md', "publisher") =
                  IF Get(md, "publisher") # <<>> THEN Get(md, "publisher")
                  ELSE IF prefix = "zrzf" THEN <<"zrzyb">>
                  ELSE IF prefix \in {"gtzf", "gtdcbf", "gtzyb"}
                       THEN <<"gtzyb">>
                  ELSE <<>>]_vars

\* a page that gave a document number of the present ministry and no
\* publisher: the publisher is the ministry
C30_Witness_PublisherInferred ==
    /\ ex_pc = "done"
    /\ Get(md, "doc_number") = docNumber
    /\ Get(md, "publisher") = <<"zrzyb">>

(* ================== api_client.py: _clean_content ================== *)
\* a text is the sequence of its characters: "nl" is the newline, "sp" a
\* space, the members of Digits are digits, "di" and "tiao" the two
\* characters around a clause number, "ni", "gong", "si" the characters of
\* the sample word, "nian" the year character, "ming" and "cheng" the
\* characters of the label for a name, "da" the one-character page element
\* for the large font size, "x" any other character

\* lines of a text of the line pool
MaxLines == 7

\* digits of a clause number
MaxDigits == 4

\* \s
IsSpace(c) == c \in {"nl", "sp"}

\* \d
IsDigit(c) == c \in Digits

\* `\s*\n+` (spaces allowed) or `\n+` matched from position i on and
\* followed by what the pattern has next, which can match at the positions
\* ok: the position of the last newline matched, 0 without a match
Gap(s, i, spaces, ok) ==
    LET ends == {e \in i..Len(s) :
                    /\ \A k \in i..e : IF spaces THEN IsSpace(s[k])
                                                 ELSE s[k] = "nl"
                    /\ s[e] = "nl"
                    /\ e + 1 \in ok}
    IN  IF ends = {} THEN 0
        ELSE CHOOSE e \in ends : \A f \in ends : f <= e

\* `\d+` matched from position p on: the position of its last digit
DigitsEnd(s, p) ==
    CHOOSE e \in (p - 1)..Len(s) :
        /\ \A k \in p..e : IsDigit(s[k])
        /\ e = Len(s) \/ ~IsDigit(s[e + 1])

\* `[...]` after a number; of its four characters the alphabet has one
Units == {"tiao"}

\* the words of the seven word patterns; the alphabet spells one of them
SplitWords == {<<"gong", "si">>}

NoMatch == <<0, <<>>>>

\* a clause pattern that never matches
ClauseMatch_Never(s, i) == NoMatch

\* the pattern for a clause number on a line of its own, tried at position i
ClauseMatch(s, i) ==
    LET a == Gap(s, i + 1, TRUE, {p \in 1..Len(s) : IsDigit(s[p])})
        e == IF a = 0 THEN 0 ELSE DigitsEnd(s, a + 1)
        b == IF a = 0 THEN 0
             ELSE Gap(s, e + 1, TRUE, {q \in 1..Len(s) : s[q] = "tiao"})
    IN  IF s[i] = "di" /\ a # 0 /\ b # 0
        THEN <<b + 1, <<"di">> \o SubSeq(s, a + 1, e) \o <<"tiao">> >>
        ELSE NoMatch

\* one pattern tried at position i: <<position of the last character
\* matched, replacement>>. "year" is the pattern for a four-digit number
\* between two lines, "unit" for a number with its unit on the next line,
\* "clause" for a clause number on a line of its own, "word" for a word of
\* SplitWords. The patterns for brackets and quotes need characters the
\* alphabet does not have.
Match(pat, s, i) ==
    CASE pat = "year" ->
           LET a == Gap(s, i + 1, TRUE,
                        {p \in 1..Len(s) :
                            /\ p + 3 <= Len(s)
                            /\ \A k \in p..(p + 3) : IsDigit(s[k])})
               b == IF a = 0 THEN 0
                    ELSE Gap(s, a + 5, TRUE,
                             {q \in 1..Len(s) : ~IsDigit(s[q])})
           IN  IF ~IsDigit(s[i]) /\ a # 0 /\ b # 0
               THEN <<b + 1, <<s[i]>> \o SubSeq(s, a + 1, a + 4)
                                   \o <<s[b + 1]>> >>
               ELSE NoMatch
      [] pat = "unit" ->
           LET a == Gap(s, i + 1, TRUE,
                        {p \in 1..Len(s) :
                            /\ IsDigit(s[p])
                            /\ DigitsEnd(s, p) < Len(s)
                            /\ s[DigitsEnd(s, p) + 1] \in Units})
           IN  IF ~IsDigit(s[i]) /\ s[i] # "nl" /\ a # 0
               THEN <<DigitsEnd(s, a + 1) + 1,
                      <<s[i]>> \o SubSeq(s, a + 1, DigitsEnd(s, a + 1) + 1)>>
               ELSE NoMatch
      [] pat = "clause" -> ClauseMatch(s, i)
      [] pat = "word" ->
           LET hits == {w \in SplitWords :
                          LET a == Gap(s, i + 1, FALSE,
                                       {p \in 1..Len(s) : s[p] = w[1]})
                              b == IF a = 0 THEN 0
                                   ELSE Gap(s, a + 2, FALSE,
                                            {q \in 1..Len(s) : s[q] = w[2]})
                          IN  /\ a # 0
                              /\ b # 0
                              /\ b + 2 <= Len(s)
                              /\ s[b + 2] # "nl"
                              /\ ~IsDigit(s[b + 2])}
           IN  IF s[i] # "nl" /\ ~IsDigit(s[i]) /\ hits # {}
               THEN LET w == CHOOSE h \in hits : TRUE
                        a == Gap(s, i + 1, FALSE,
                                 {p \in 1..Len(s) : s[p] = w[1]})
                        b == Gap(s, a + 2, FALSE,
                                 {q \in 1..Len(s) : s[q] = w[2]})
                    IN  <<b + 2, <<s[i], w[1], w[2], s[b + 2]>> >>
               ELSE NoMatch

RECURSIVE ReSub(_, _, _)
\* re.sub: the matches of one pattern from position i on, leftmost first and
\* not overlapping, each replaced
ReSub(pat, s, i) ==
    IF i > Len(s) THEN <<>>
    ELSE LET m == Match(pat, s, i)
         IN  IF m[1] = 0 THEN <<s[i]>> \o ReSub(pat, s, i + 1)
             ELSE m[2] \o ReSub(pat, s, m[1] + 1)

\* the substitutions of the first step, in the order of the code
RejoinSplitText(s) ==
    ReSub("word", ReSub("clause", ReSub("unit", ReSub("year", s, 1), 1), 1), 1)

RECURSIVE Split(_)
\* content.split("\n")
Split(s) ==
    IF \A k \in 1..Len(s) : s[k] # "nl" THEN <<s>>
    ELSE LET k == CHOOSE j \in 1..Len(s) :
                      s[j] = "nl" /\ \A h \in 1..(j - 1) : s[h] # "nl"
         IN  <<SubSeq(s, 1, k - 1)>> \o Split(SubSeq(s, k + 1, Len(s)))

RECURSIVE Join(_)
\* "\n".join(ls)
Join(ls) ==
    IF ls = <<>> THEN <<>>
    ELSE IF Len(ls) = 1 THEN ls[1]
    ELSE ls[1] \o <<"nl">> \o Join(Tail(ls))

\* the elements of `out` dropped from both ends of a sequence
Trim(s, out) ==
    LET kept == {k \in 1..Len(s) : s[k] \notin out}
    IN  IF kept = {} THEN <<>>
        ELSE SubSeq(s, CHOOSE k \in kept : \A j \in kept : k <= j,
                       CHOOSE k \in kept : \A j \in kept : j <= k)

\* line.strip()
Strip(line) == Trim(line, {"nl", "sp"})

\* `w in line`
Contains(line, w) ==
    \E k \in 0..(Len(line) - Len(w)) : SubSeq(line, k + 1, k + Len(w)) = w

\* of the ten labels the alphabet spells the one for a name
metadata_labels == {<<"ming", "cheng">>}

\* of the marks of a value (year, month, day, department, ...) the alphabet
\* has the year character
value_keywords == {<<"nian">>}

\* of the page elements the alphabet has the large-font mark
exact_match_keywords == {<<"da">>}

\* the test that starts or prolongs a block: a label alone on the line (or
\* one of three fragments the alphabet does not have), or a value mark
\* anywhere in the line
MetadataLike(line) ==
    \/ line \in metadata_labels
    \/ \E w \in value_keywords : Contains(line, w)

\* the test of the loop that skips the rest of a block: a label or a value
\* mark anywhere in the line
SkipsOver(line) ==
    \/ line \in metadata_labels
    \/ \E w \in metadata_labels : Contains(line, w)
    \/ \E w \in value_keywords : Contains(line, w)

\* the first position from i on whose line the skipping loop stops at
SkipTo(ls, i) ==
    CHOOSE j \in i..(Len(ls) + 1) :
        /\ \A k \in i..(j - 1) : SkipsOver(Strip(ls[k]))
        /\ j = Len(ls) + 1 \/ ~SkipsOver(Strip(ls[j]))

\* a short line that is a page element, or starts or ends with one (the
\* phrases and bracket marks of the other filters are not in the alphabet)
IsPageElement(line) ==
    /\ Len(line) < 10
    /\ \E kw \in exact_match_keywords :
          \/ line = kw
          \/ /\ Len(kw) < 10
             /\ Len(line) >= Len(kw)
             /\ \/ SubSeq(line, 1, Len(kw)) = kw
                \/ SubSeq(line, Len(line) - Len(kw) + 1, Len(line)) = kw

RECURSIVE SecondPass(_, _, _, _, _)
\* the loop over cleaned_lines that drops metadata repeated at the start of
\* the text: skip is skip_initial_metadata, count initial_metadata_count,
\* found found_real_content. A line with a date mark counts as metadata
\* only with two words of a list the alphabet does not have.
SecondPass(ls, k, skip, count, found) ==
    IF k > Len(ls) THEN <<>>
    ELSE
      LET line == ls[k]
          is_metadata == line \in metadata_labels
          is_real_content == Len(line) > 20 /\ ~is_metadata
      IN  IF Strip(line) = <<>>
          THEN (IF found THEN <<line>> ELSE <<>>)
                   \o SecondPass(ls, k + 1, skip, count, found)
          ELSE IF ~skip
          THEN <<line>> \o SecondPass(ls, k + 1, skip, count, found)
          ELSE IF is_metadata
          THEN IF count + 1 > 8
               THEN SecondPass(ls, k + 1, skip, count + 1, found)
               ELSE IF count + 1 <= 3
               THEN <<line>> \o SecondPass(ls, k + 1, FALSE, count + 1, TRUE)
               ELSE SecondPass(ls, k + 1, skip, count + 1, found)
          ELSE IF is_real_content
          THEN <<line>> \o SecondPass(ls, k + 1, FALSE, count, TRUE)
          ELSE IF count > 5
          THEN SecondPass(ls, k + 1, skip, count, found)
          ELSE <<line>> \o SecondPass(ls, k + 1,
                                       IF Len(line) > 10 THEN FALSE ELSE skip,
                                       count,
                                       IF Len(line) > 10 THEN TRUE ELSE found)

RECURSIVE MergeBlank(_)
\* of consecutive blank lines the first is kept
MergeBlank(ls) ==
    IF Len(ls) <= 1 THEN ls
    ELSE LET init == MergeBlank(SubSeq(ls, 1, Len(ls) - 1))
             last == ls[Len(ls)]
         IN  IF Strip(last) = <<>> /\ Strip(ls[Len(ls) - 1]) = <<>>
             THEN init
             ELSE Append(init, last)

\* what follows the first loop: the second pass, blank lines merged and
\* dropped from both ends, the lines joined (the marks that end the text
\* with a page element are not in the alphabet)
FinalText(ls) ==
    LET merged == MergeBlank(SecondPass(ls, 1, TRUE, 0, FALSE))
    IN  Join(Trim(merged, {merged[k] : k \in {j \in 1..Len(merged) :
                                                  Strip(merged[j]) = <<>>}}))

cleanUnchanged ==
    UNCHANGED <<crawlVars, counterVars, allocVars, taskVars, clock, retryVars,
                mergeVars, metaVars, callbackVars, backendVars>>

\* _clean_content up to its first loop: the empty text is returned as it
\* is, otherwise the substitutions are made and the text is split
CleanStart ==
    /\ clean_pc = "called"
    /\ IF content = <<>>
       THEN /\ clean_pc' = "returned"
            /\ UNCHANGED <<content, lines>>
       ELSE /\ clean_pc' = "loop"
            /\ content' = RejoinSplitText(content)
            /\ lines' = Split(content')
    /\ line_i' = 1
    /\ cleaned_lines' = <<>>
    /\ in_metadata_block' = FALSE
    /\ metadata_block_start' = 0
    /\ consecutive_metadata_lines' = 0
    /\ UNCHANGED <<raw_content, block_first, removed_lines>>
    /\ cleanUnchanged

\* one iteration of `while i < len(lines)`
CleanLine ==
    /\ clean_pc = "loop"
    /\ line_i <= Len(lines)
    /\ LET line == Strip(lines[line_i])
           start == IF in_metadata_block THEN metadata_block_start
                    ELSE Len(cleaned_lines)
           first == IF in_metadata_block THEN block_first ELSE line_i
           count == (IF in_metadata_block THEN consecutive_metadata_lines
                     ELSE 0) + 1
       IN  IF line = <<>>
           THEN /\ cleaned_lines' = Append(cleaned_lines, <<>>)
                /\ line_i' = line_i + 1
                /\ UNCHANGED <<in_metadata_block, metadata_block_start,
                               consecutive_metadata_lines, block_first,
                               removed_lines>>
           ELSE IF MetadataLike(line) /\ count > 5
           THEN /\ cleaned_lines' = SubSeq(cleaned_lines, 1, start)
                /\ line_i' = SkipTo(lines, line_i)
                /\ in_metadata_block' = FALSE
                /\ consecutive_metadata_lines' = 0
                /\ metadata_block_start' = start
                /\ block_first' = first
                /\ removed_lines' = removed_lines \cup (first..(line_i' - 1))
           ELSE /\ IF MetadataLike(line)
                   THEN /\ in_metadata_block' = TRUE
                        /\ metadata_block_start' = start
                        /\ consecutive_metadata_lines' = count
                        /\ block_first' = first
                   ELSE /\ in_metadata_block' = FALSE
                        /\ consecutive_metadata_lines' =
                               IF in_metadata_block THEN 0
                               ELSE consecutive_metadata_lines
                        /\ UNCHANGED <<metadata_block_start, block_first>>
                /\ cleaned_lines' = IF IsPageElement(line) THEN cleaned_lines
                                    ELSE Append(cleaned_lines, line)
                /\ line_i' = line_i + 1
                /\ UNCHANGED removed_lines
    /\ UNCHANGED <<clean_pc, content, lines, raw_content>>
    /\ cleanUnchanged

\* the loop is over: the rest of the function, and its return
CleanReturn ==
    /\ clean_pc = "loop"
    /\ line_i > Len(lines)
    /\ content' = FinalText(cleaned_lines)
    /\ clean_pc' = "returned"
    /\ UNCHANGED <<raw_content, lines, line_i, cleaned_lines,
                   in_metadata_block, metadata_block_start,
                   consecutive_metadata_lines, block_first, removed_lines>>
    /\ cleanUnchanged

RECURSIVE DigitStrings(_)
\* the numbers of at most n digits written with "1" and "2"
DigitStrings(n) ==
    IF n = 0 THEN {}
    ELSE LET shorter == DigitStrings(n - 1)
         IN  {<<"1">>, <<"2">>} \cup shorter
                 \cup {Append(d, c) : d \in shorter, c \in {"1", "2"}}

\* a clause number between its two characters, the three on lines of their
\* own, with or without blanks around the newlines
ClauseInputs ==
    {<<"di">> \o g \o d \o h \o <<"tiao">> :
        g \in {<<"nl">>, <<"sp", "nl">>, <<"nl", "sp">>, <<"nl", "nl">>},
        h \in {<<"nl">>, <<"sp", "nl">>, <<"nl", "sp">>},
        d \in DigitStrings(MaxDigits)}

\* the sample word split over lines, at the end of the text or not
WordInputs ==
    {a \o <<"nl", "gong", "nl", "si">> \o b :
        a \in {<<>>, <<"ni">>, <<"x", "ni">>, <<"1">>},
        b \in {<<>>, <<"x">>, <<"nl">>, <<"nl", "x">>, <<"1">>, <<"sp">>}}

\* a blank line, a date-like line, a sentence of body text naming a label
LinePool == {<<>>, <<"nian">>, <<"x", "ming", "cheng">>}

LineInputs ==
    {Join(ls) : ls \in SeqsUpTo(LinePool, MaxLines)}
        \cup {Join(ls) : ls \in SeqsUpTo({<<"da">>, <<"x", "da">>,
                                          <<"ming", "cheng">>, <<"x">>}, 3)}

InitClean ==
    /\ ServiceIdle
    /\ RetryIdle
    /\ MergeIdle
    /\ MetaIdle
    /\ CallbackIdle
    /\ BackendIdle
    /\ clean_pc = "called"
    /\ content \in ClauseInputs \cup WordInputs \cup LineInputs
    /\ raw_content = content
    /\ lines = <<>>
    /\ line_i = 1
    /\ cleaned_lines = <<>>
    /\ in_metadata_block = FALSE
    /\ metadata_block_start = 0
    /\ consecutive_metadata_lines = 0
    /\ block_first = 0
    /\ removed_lines = {}

NextClean ==
    \/ CleanStart
    \/ CleanLine
    \/ CleanReturn

SpecClean == InitClean /\ [][NextClean]_vars

\* C22: for every digit string d, the text of the three lines "di", d,
\* "tiao" is cleaned to the one line "di" d "tiao".
C22_SplitClauseNumberRejoined ==
    \A d \in DigitStrings(MaxDigits) :
        (clean_pc = "returned"
            /\ raw_content = <<"di", "nl">> \o d \o <<"nl", "tiao">>)
        => content = <<"di">> \o d \o <<"tiao">>

\* the three lines "di", "1", "tiao" came back as one line
C22_Witness_ClauseOneRejoined ==
    /\ clean_pc = "returned"
    /\ raw_content = <<"di", "nl", "1", "nl", "tiao">>
    /\ content = <<"di", "1", "tiao">>

\* C23: a known two-character word split over lines is rejoined wherever it
\* stands, the end of the text included: the three lines "ni", "gong", "si"
\* are cleaned to the one line "ni" "gong" "si".
C23_SplitWordRejoinedAtEndOfText ==
    (clean_pc = "returned"
        /\ raw_content = <<"ni", "nl", "gong", "nl", "si">>)
    => content = <<"ni", "gong", "si">>

\* the same word followed by one more character is rejoined
C23_Witness_WordRejoinedBeforeText ==
    /\ clean_pc = "returned"
    /\ raw_content = <<"ni", "nl", "gong", "nl", "si", "x">>
    /\ content = <<"ni", "gong", "si", "x">>

\* line k of the split text lies in a run of at least 6 adjacent
\* metadata-like lines
InLongRun(k) ==
    \E a \in 1..k, b \in k..Len(lines) :
        /\ b - a + 1 >= 6
        /\ \A j \in a..b : MetadataLike(Strip(lines[j]))

\* C29: the block rule removes only lines of runs of at least 6 adjacent
\* metadata-like lines: a shorter run bounded by other lines (blank ones
\* included) is kept and no line outside such a run is removed by the rule.
C29_OnlyLongAdjacentRunsRemoved ==
    \A k \in removed_lines : InLongRun(k)

\* the rule removed a run of six adjacent date-like lines
C29_Witness_LongRunRemoved ==
    /\ clean_pc = "returned"
    /\ removed_lines = 2..7
    /\ \A k \in 2..7 : Strip(lines[k]) = <<"nian">>
    /\ Len(lines) = 7

(* ================= crawler.py: _update_progress ================= *)
\* what the injected callback can be: None, a function that takes the
\* message, one that raises on a string and takes the progress object, one
\* that raises on whatever it is handed
CallbackKinds == {"None", "takes_message", "takes_object", "raises"}

\* the callback raises when called with a string / with the progress object
RaisesOn(cb, arg) ==
    \/ cb = "raises"
    \/ cb = "takes_object" /\ arg = "message"

\* the keyword arguments of the call sites: none, or the id and title of the
\* record about to be crawled
KwargsPool ==
    {<<>>} \cup {[current_policy_id |-> PolicyId(p),
                  current_policy_title |-> p.title] : p \in {pX, pY}}

\* `for key, value in kwargs.items(): setattr(self.progress, key, value)`
SetAttrs(p, kw) ==
    [f \in DOMAIN p |-> IF f \in DOMAIN kw THEN kw[f] ELSE p[f]]

\* the message handed to the callback: the current stage, the title being
\* processed, the overall and the stage progress, each when there is one
ProgressMessage(p) ==
    LET staged == p.current_stage \in DOMAIN p.stages
        st == p.stages[p.current_stage]
    IN  [stage |-> IF staged THEN p.current_stage ELSE "",
         title |-> p.current_policy_title,
         overall |-> IF p.total_count > 0
                     THEN <<p.completed_count + p.failed_count, p.total_count>>
                     ELSE <<>>,
         in_stage |-> IF p.total_count > 0 /\ staged /\ st.total_count > 0
                      THEN <<st.completed_count + st.failed_count,
                             st.total_count>>
                      ELSE <<>>]

\* a handler that lets the second exception out
AfterSecondFailure_Raise == "raised"

\* the inner `except Exception: pass`: the call returns
AfterSecondFailure == "returned"

notifyUnchanged ==
    UNCHANGED <<pc, data_sources, max_policy_retries, all_policies, seen_ids,
                src_idx, rec_idx, retry_count, result_policy, crawled,
                src_failed, prev_policies, processed, attempts, fetch_log,
                offered, stop_seen, stop_requested, counterVars, allocVars,
                taskVars, clock, retryVars, mergeVars, metaVars, cleanVars,
                backendVars>>

\* _update_progress(**kw) is called by a crawler whose callback is cb: the
\* attributes are set; without a callback the call is over
UpdateProgressCall(kw, cb) ==
    /\ up_pc \in {"idle", "returned"}
    /\ progress_callback' = cb
    /\ kwargs' = kw
    /\ progress_before' = progress
    /\ progress' = SetAttrs(progress, kw)
    /\ delivered' = "nothing"
    /\ up_pc' = IF cb = "None" THEN "returned" ELSE "message"
    /\ notifyUnchanged

\* self.progress_callback(message)
CallbackWithMessage ==
    /\ up_pc = "message"
    /\ IF RaisesOn(progress_callback, "message")
       THEN /\ up_pc' = "object"
            /\ UNCHANGED delivered
       ELSE /\ up_pc' = "returned"
            /\ delivered' = ProgressMessage(progress)
    /\ UNCHANGED <<progress, progress_callback, kwargs, progress_before>>
    /\ notifyUnchanged

\* the handler of the first exception: self.progress_callback(self.progress)
CallbackWithObject ==
    /\ up_pc = "object"
    /\ IF RaisesOn(progress_callback, "object")
       THEN /\ up_pc' = AfterSecondFailure
            /\ UNCHANGED delivered
       ELSE /\ up_pc' = "returned"
            /\ delivered' = "object"
    /\ UNCHANGED <<progress, progress_callback, kwargs, progress_before>>
    /\ notifyUnchanged

\* a crawler just constructed
InitNotify ==
    /\ ServiceIdle
    /\ RetryIdle
    /\ MergeIdle
    /\ MetaIdle
    /\ CleanIdle
    /\ CallbackIdle
    /\ BackendIdle

NextNotify ==
    \/ \E kw \in KwargsPool, cb \in CallbackKinds : UpdateProgressCall(kw, cb)
    \/ CallbackWithMessage
    \/ CallbackWithObject
    \/ \E name \in StageNames, total \in 0..MaxTotal :
           up_pc \in {"idle", "returned"} /\ CallSetStage(name, total)
    \/ \E name \in StageNames :
           /\ up_pc \in {"idle", "returned"}
           /\ CallUpdateStageProgress(name, 1, 0)

SpecNotify == InitNotify /\ [][NextNotify]_vars

\* C24: an exception of the progress callback never leaves _update_progress,
\* and the call leaves the progress object exactly as a call with a callback
\* that does not raise leaves it: the keyword arguments set, every other
\* field as before.
C24_CallbackExceptionSwallowed ==
    [][/\ up_pc' # "raised"
       /\ (up_pc' = "returned" /\ callbackVars' # callbackVars) =>
              \A f \in DOMAIN progress' :
                  progress'[f] = IF f \in DOMAIN kwargs' THEN kwargs'[f]
                                 ELSE progress_before'[f]]_vars

\* a callback that raised on the message and on the object, and the call
\* returned with the record's id set
C24_Witness_BothCallsRaised ==
    /\ up_pc = "returned"
    /\ progress_callback = "raises"
    /\ delivered = "nothing"
    /\ kwargs # <<>>
    /\ progress.current_policy_id = kwargs.current_policy_id
    /\ progress_before.current_policy_id # kwargs.current_policy_id

(* ===== task_service.py: one task, several executor threads and calls ===== *)
\* threads start_task and resume_task start for the task
MaxExecutors == 2

\* API calls that are between two of their steps at one time
MaxCallers == 2

\* records the search of one executor returns
MaxRecords == 2

lifeUnchanged ==
    UNCHANGED <<crawlVars, counterVars, allocVars, taskVars, clock, retryVars,
                mergeVars, metaVars, cleanVars, callbackVars, attachVars,
                schedVars, cellVars>>

\* the threads started so far
Threads == 1..Len(executors)

\* the thread has not reached the end of _execute_task
Active(k) == executors[k].pc # "exited"

InFlight == inflight["start_checked"] + inflight["stop_signal"]
            + inflight["pause_signal"] + inflight["resume_start"]

\* another call may get between two of its steps
CanCall == InFlight < MaxCallers

\* another thread may be started by a call that begins now
CanSpawn ==
    Len(executors) + inflight["start_checked"] + inflight["resume_start"]
        < MaxExecutors

Enter(ph) == inflight' = [inflight EXCEPT ![ph] = @ + 1]

Leave(ph) == inflight' = [inflight EXCEPT ![ph] = @ - 1]

\* the status tests of start_task pass: the row exists and its status is not
\* running, completed or cancelled
Startable(status) ==
    status \notin {"deleted", "running", "completed", "cancelled"}

\* threading.Thread(target=self._execute_task).start() and
\* self._running_tasks[task_id] = thread
StartThread(by) ==
    /\ executors' = Append(executors, [pc |-> "status_check", crawler |-> 0,
                                       i |-> 0, n |-> 0, by |-> by])
    /\ crawlers' = Append(crawlers, FALSE)
    /\ running' = Len(executors) + 1

\* start_task: the row is queried and its status tested; a call that raises
\* ValueError here changes nothing
SvcStartCheck ==
    /\ CanCall
    /\ CanSpawn
    /\ Startable(db_status)
    /\ Enter("start_checked")
    /\ UNCHANGED <<db_status, executors, crawlers, instances, running>>
    /\ lifeUnchanged

\* start_task: "running" is committed and the thread started; the commit
\* raises when the row has been deleted since the query
SvcStartCommit ==
    /\ inflight["start_checked"] > 0
    /\ Leave("start_checked")
    /\ IF db_status = "deleted"
       THEN UNCHANGED <<db_status, executors, crawlers, running>>
       ELSE /\ db_status' = "running"
            /\ StartThread("start")
    /\ UNCHANGED instances
    /\ lifeUnchanged

\* stop_task up to db.commit()
SvcStopCommit ==
    /\ CanCall
    /\ db_status = "running"
    /\ db_status' = "cancelled"
    /\ Enter("stop_signal")
    /\ UNCHANGED <<executors, crawlers, instances, running>>
    /\ lifeUnchanged

\* the flag of the registered crawler, if any, set
Signalled ==
    [k \in DOMAIN crawlers |-> crawlers[k] \/ k = instances]

\* stop_task under _crawler_lock: the flag set, the registry entry deleted
SvcStopSignal ==
    /\ inflight["stop_signal"] > 0
    /\ Leave("stop_signal")
    /\ crawlers' = Signalled
    /\ instances' = 0
    /\ UNCHANGED <<db_status, executors, running>>
    /\ lifeUnchanged

\* pause_task up to db.commit()
SvcPauseCommit ==
    /\ CanCall
    /\ db_status = "running"
    /\ db_status' = "paused"
    /\ Enter("pause_signal")
    /\ UNCHANGED <<executors, crawlers, instances, running>>
    /\ lifeUnchanged

\* pause_task under _crawler_lock: the flag set
SvcPauseSignal ==
    /\ inflight["pause_signal"] > 0
    /\ Leave("pause_signal")
    /\ crawlers' = Signalled
    /\ UNCHANGED <<db_status, executors, instances, running>>
    /\ lifeUnchanged

\* resume_task up to its db.commit(): a paused task is made pending
SvcResumeCommit ==
    /\ CanCall
    /\ CanSpawn
    /\ db_status = "paused"
    /\ db_status' = "pending"
    /\ Enter("resume_start")
    /\ UNCHANGED <<executors, crawlers, instances, running>>
    /\ lifeUnchanged

\* resume_task's call of start_task: the thread is started, or start_task
\* raises and the handler commits "paused" again (on a deleted row that
\* commit raises as well)
SvcResumeStart ==
    /\ inflight["resume_start"] > 0
    /\ Leave("resume_start")
    /\ IF Startable(db_status)
       THEN /\ db_status' = "running"
            /\ StartThread("resume")
       ELSE /\ db_status' = IF db_status = "deleted" THEN "deleted"
                            ELSE "paused"
            /\ UNCHANGED <<executors, crawlers, running>>
    /\ UNCHANGED instances
    /\ lifeUnchanged

\* what delete_task requires of the task before it deletes
Deletable(status) == status \notin {"deleted", "running"}

\* delete_task: the row exists and its status is not "running": its
\* policies, files and the row are deleted
SvcDelete ==
    /\ Deletable(db_status)
    /\ db_status' = "deleted"
    /\ UNCHANGED <<executors, crawlers, instances, running, inflight>>
    /\ lifeUnchanged

\* thread k takes a step that leaves the other threads alone
Step(k, now) ==
    /\ k \in Threads
    /\ executors' = [executors EXCEPT ![k] = now]
    /\ UNCHANGED <<running, inflight>>
    /\ lifeUnchanged

\* _execute_task: `if not task: return` and the status test before the
\* crawler is created; on "running" the PolicyCrawler is constructed
RunStatusCheck(k) ==
    /\ k \in Threads
    /\ executors[k].pc = "status_check"
    /\ IF db_status # "running"
       THEN Step(k, [executors[k] EXCEPT !.pc = "finally"])
       ELSE Step(k, [executors[k] EXCEPT !.pc = "register", !.crawler = k])
    /\ UNCHANGED <<db_status, crawlers, instances>>

\* self._crawler_instances[task_id] = crawler, under the lock
RunRegister(k) ==
    /\ k \in Threads
    /\ executors[k].pc = "register"
    /\ Step(k, [executors[k] EXCEPT !.pc = "search"])
    /\ instances' = k
    /\ UNCHANGED <<db_status, crawlers>>

\* crawler.search_all_policies(...) returns n records
RunSearch(k, n) ==
    /\ k \in Threads
    /\ executors[k].pc = "search"
    /\ Step(k, [executors[k] EXCEPT !.pc = "loop_check", !.n = n, !.i = 0])
    /\ UNCHANGED <<db_status, crawlers, instances>>

\* an exception reaches the handler of the inner try
RunSearchRaises(k) ==
    /\ k \in Threads
    /\ executors[k].pc = "search"
    /\ Step(k, [executors[k] EXCEPT !.pc = "except"])
    /\ UNCHANGED <<db_status, crawlers, instances>>

\* the registry's crawler for the task has its flag set
Flagged == instances # 0 /\ crawlers[instances]

\* the head of the record loop: under the lock `crawler` is re-read from the
\* registry; with the flag set on it the status is written and the loop
\* left, and without a row `task.status = ...` raises
RunLoopCheck(k) ==
    /\ k \in Threads
    /\ executors[k].pc = "loop_check"
    /\ IF executors[k].i >= executors[k].n
       THEN /\ Step(k, [executors[k] EXCEPT !.pc = "after_loop"])
            /\ UNCHANGED db_status
       ELSE IF ~Flagged
       THEN /\ Step(k, [executors[k] EXCEPT !.pc = "record",
                                            !.crawler = instances])
            /\ UNCHANGED db_status
       ELSE IF db_status = "deleted"
       THEN /\ Step(k, [executors[k] EXCEPT !.pc = "except",
                                            !.crawler = instances])
            /\ UNCHANGED db_status
       ELSE /\ Step(k, [executors[k] EXCEPT !.pc = "after_loop",
                                            !.crawler = instances])
            /\ db_status' = StoppedStatus(db_status)
    /\ UNCHANGED <<crawlers, instances>>

\* the body of the record loop: crawler.crawl_single_policy (its exception
\* caught) and the save (its exception caught)
RunRecord(k) ==
    /\ k \in Threads
    /\ executors[k].pc = "record"
    /\ Step(k, [executors[k] EXCEPT !.pc = "loop_check", !.i = @ + 1])
    /\ UNCHANGED <<db_status, crawlers, instances>>

\* after the loop: the row is queried, was_stopped decides the status, the
\* commit, the registry entry removed. Without a row `task.status = ...`
\* raises; the commit raises when the database refuses it. The steps of
\* this block interleave with the calls as in SpecTask.
RunAfterLoop(k, commit_ok) ==
    /\ k \in Threads
    /\ executors[k].pc = "after_loop"
    /\ LET mine == IF instances # 0 THEN instances ELSE executors[k].crawler
       IN  IF db_status = "deleted" \/ ~commit_ok
           THEN /\ Step(k, [executors[k] EXCEPT !.pc = "except",
                                                !.crawler = mine])
                /\ UNCHANGED <<db_status, instances>>
           ELSE /\ Step(k, [executors[k] EXCEPT !.pc = "finally",
                                                !.crawler = mine])
                /\ db_status' = IF Flagged THEN StoppedStatus(db_status)
                                ELSE "completed"
                /\ instances' = 0
    /\ UNCHANGED crawlers

\* the handler of the inner try: the row is queried, was_stopped decides
\* the status, the commit, the registry entry removed; an exception raised
\* in the handler reaches the outer handler
RunExcept(k, commit_ok) ==
    /\ k \in Threads
    /\ executors[k].pc = "except"
    /\ IF db_status = "deleted" \/ ~commit_ok
       THEN /\ Step(k, [executors[k] EXCEPT !.pc = "outer_except",
                                            !.crawler = instances])
            /\ UNCHANGED <<db_status, instances>>
       ELSE /\ Step(k, [executors[k] EXCEPT !.pc = "finally",
                                            !.crawler = instances])
            /\ db_status' = ExceptStatus(Flagged, db_status)
            /\ instances' = 0
    /\ UNCHANGED crawlers

\* the outer handler: the registry entry removed, nothing written to the row
RunOuterExcept(k) ==
    /\ k \in Threads
    /\ executors[k].pc = "outer_except"
    /\ Step(k, [executors[k] EXCEPT !.pc = "finally"])
    /\ instances' = 0
    /\ UNCHANGED <<db_status, crawlers>>

\* the finally block: both registries cleared, the thread ends
RunFinally(k) ==
    /\ k \in Threads
    /\ executors[k].pc = "finally"
    /\ executors' = [executors EXCEPT ![k].pc = "exited"]
    /\ running' = 0
    /\ instances' = 0
    /\ UNCHANGED <<db_status, crawlers, inflight>>
    /\ lifeUnchanged

\* a task created by create_task; nothing started yet
InitLifecycle ==
    /\ ServiceIdle
    /\ RetryIdle
    /\ MergeIdle
    /\ MetaIdle
    /\ CleanIdle
    /\ CallbackIdle
    /\ BackendIdle

NextLifecycle ==
    \/ SvcStartCheck
    \/ SvcStartCommit
    \/ SvcStopCommit
    \/ SvcStopSignal
    \/ SvcPauseCommit
    \/ SvcPauseSignal
    \/ SvcResumeCommit
    \/ SvcResumeStart
    \/ SvcDelete
    \/ \E k \in 1..MaxExecutors :
           \/ RunStatusCheck(k)
           \/ RunRegister(k)
           \/ \E n \in 0..MaxRecords : RunSearch(k, n)
           \/ RunSearchRaises(k)
           \/ RunLoopCheck(k)
           \/ RunRecord(k)
           \/ \E commit_ok \in BOOLEAN : RunAfterLoop(k, commit_ok)
           \/ \E commit_ok \in BOOLEAN : RunExcept(k, commit_ok)
           \/ RunOuterExcept(k)
           \/ RunFinally(k)

SpecLifecycle == InitLifecycle /\ [][NextLifecycle]_vars

\* C32: once a resume has started a thread for the task, a thread started
\* before it starts no further record, does not take the resumed run's
\* crawler as its own, and leaves the registry entry of the resumed run
\* alone.
C32_EarlierExecutorLeavesResumedRunAlone ==
    [][\A k \in Threads :
          (/\ executors'[k] # executors[k]
           /\ \E j \in Threads : j > k /\ executors[j].by = "resume") =>
              /\ executors'[k].pc = "record" => executors[k].pc = "record"
              /\ executors'[k].crawler \in {0, k}
              /\ instances > k => instances' = instances]_vars

\* the thread of the first run is about to crawl a record with the crawler
\* of the resumed run
C32_Witness_FirstExecutorUsesResumedCrawler ==
    /\ Len(executors) = 2
    /\ executors[2].by = "resume"
    /\ Active(2)
    /\ executors[1].pc = "record"
    /\ executors[1].crawler = 2

\* C33: a thread is started only while the task's status is not running,
\* completed or cancelled; so of two start_task calls on the task that
\* overlap, at most one starts a thread.
C33_ExecutorStartedOnlyFromStartableStatus ==
    [][Len(executors') > Len(executors) => Startable(db_status)]_vars

\* two start_task calls each started a thread, and both threads are running
C33_Witness_TwoStartsTwoExecutors ==
    /\ Len(executors) = 2
    /\ executors[1].by = "start"
    /\ executors[2].by = "start"
    /\ executors[1].pc = "record"
    /\ executors[2].pc = "record"

\* C34: when every thread started for the task has left _execute_task and
\* no call is in progress, the task's status is not "running".
C34_NoExecutorLeftStatusNotRunning ==
    (/\ executors # <<>>
     /\ \A k \in Threads : ~Active(k)
     /\ InFlight = 0) => db_status # "running"

\* the only thread left through the outer handler, the row still "running"
C34_Witness_ExitedThroughOuterHandler ==
    /\ Len(executors) = 1
    /\ executors[1].pc = "exited"
    /\ InFlight = 0
    /\ db_status = "running"

\* C35: delete_task deletes the task only when every thread started for it
\* has left _execute_task.
C35_DeletedOnlyWithoutActiveExecutor ==
    [][(db_status' = "deleted" /\ db_status # "deleted") =>
           \A k \in Threads : ~Active(k)]_vars

\* the task was stopped and deleted while its thread was still working on a
\* record
C35_Witness_DeletedUnderRunningExecutor ==
    /\ db_status = "deleted"
    /\ Len(executors) = 1
    /\ executors[1].pc = "record"
    /\ crawlers[1]

(* ========= scheduler_service.py: one scheduled task and its runs ========= *)
\* executions of the scheduled task a behaviour holds
MaxRuns == 2

\* polls of the wait loop before it gives up (max_wait_time / wait_interval)
MaxWaits == 2

schedUnchanged ==
    UNCHANGED <<crawlVars, counterVars, allocVars, taskVars, clock, retryVars,
                mergeVars, metaVars, cleanVars, callbackVars, lifeVars,
                attachVars, cellVars>>

TaskTypes == {"crawl_task", "backup_task"}

\* the statuses on which the wait loop of _execute_crawl_task breaks
WaitEnds(status) == status \in {"completed", "failed", "cancelled"}

\* the job's trigger fires: the scheduler calls _execute_scheduled_task in a
\* worker thread
TriggerFires ==
    /\ job_added
    /\ trig_pc \in {"idle", "done"}
    /\ runs < MaxRuns
    /\ runs' = runs + 1
    /\ trig_pc' = "fired"
    /\ UNCHANGED <<is_enabled, job_added, task_type, run_record,
                   last_run_status, crawl_task, waited_time, result_status,
                   disable_pc, disabled>>
    /\ schedUnchanged

\* _execute_scheduled_task: the row is queried; `if not
\* scheduled_task.is_enabled: return`
SchedEnabledCheck ==
    /\ trig_pc = "fired"
    /\ trig_pc' = IF is_enabled THEN "checked" ELSE "done"
    /\ UNCHANGED <<is_enabled, job_added, task_type, run_record,
                   last_run_status, crawl_task, waited_time, result_status,
                   disable_pc, disabled, runs>>
    /\ schedUnchanged

\* the run record is added with status "running" and committed
SchedRunRecord ==
    /\ trig_pc = "checked"
    /\ run_record' = "running"
    /\ result_status' = "none"
    /\ trig_pc' = "dispatch"
    /\ UNCHANGED <<is_enabled, job_added, task_type, last_run_status,
                   crawl_task, waited_time, disable_pc, disabled, runs>>
    /\ schedUnchanged

\* _execute_crawl_task: create_task and start_task; the crawl Task runs in a
\* thread of its own
SchedCrawlStart ==
    /\ trig_pc = "dispatch"
    /\ task_type = "crawl_task"
    /\ crawl_task' = "running"
    /\ waited_time' = 0
    /\ trig_pc' = "waiting"
    /\ UNCHANGED <<is_enabled, job_added, task_type, run_record,
                   last_run_status, result_status, disable_pc, disabled, runs>>
    /\ schedUnchanged

\* _execute_backup_task returns its result
SchedBackup ==
    /\ trig_pc = "dispatch"
    /\ task_type = "backup_task"
    /\ result_status' = "completed"
    /\ trig_pc' = "collected"
    /\ UNCHANGED <<is_enabled, job_added, task_type, run_record,
                   last_run_status, crawl_task, waited_time, disable_pc,
                   disabled, runs>>
    /\ schedUnchanged

\* create_task, start_task or the backup raises
SchedRaises ==
    /\ trig_pc = "dispatch"
    /\ trig_pc' = "raised"
    /\ UNCHANGED <<is_enabled, job_added, task_type, run_record,
                   last_run_status, crawl_task, waited_time, result_status,
                   disable_pc, disabled, runs>>
    /\ schedUnchanged

\* the crawl Task's executor thread, or stop_task / pause_task, writes the
\* status the Task leaves "running" with
CrawlTaskEnds(status) ==
    /\ crawl_task = "running"
    /\ crawl_task' = status
    /\ UNCHANGED <<is_enabled, job_added, task_type, run_record,
                   last_run_status, trig_pc, waited_time, result_status,
                   disable_pc, disabled, runs>>
    /\ schedUnchanged

\* one turn of `while waited_time < max_wait_time`: db.refresh(task), break
\* on an end status, else sleep and count; the loop's end without a break
SchedWaitPoll ==
    /\ trig_pc = "waiting"
    /\ IF waited_time < MaxWaits /\ ~WaitEnds(crawl_task)
       THEN /\ waited_time' = waited_time + 1
            /\ UNCHANGED trig_pc
       ELSE /\ trig_pc' = "polled"
            /\ UNCHANGED waited_time
    /\ UNCHANGED <<is_enabled, job_added, task_type, run_record,
                   last_run_status, crawl_task, result_status, disable_pc,
                   disabled, runs>>
    /\ schedUnchanged

\* the Task is queried once more and the result dict built:
\* "status": final_task.status
SchedCrawlResult ==
    /\ trig_pc = "polled"
    /\ result_status' = crawl_task
    /\ trig_pc' = "collected"
    /\ UNCHANGED <<is_enabled, job_added, task_type, run_record,
                   last_run_status, crawl_task, waited_time, disable_pc,
                   disabled, runs>>
    /\ schedUnchanged

\* what _execute_scheduled_task records for a result that was returned:
\* <<run_record.status, last_run_status>>
RunOutcome(status) == <<"completed", "success">>

\* the result was returned: the run record and the scheduled task updated
SchedRecordSuccess ==
    /\ trig_pc = "collected"
    /\ run_record' = RunOutcome(result_status)[1]
    /\ last_run_status' = RunOutcome(result_status)[2]
    /\ trig_pc' = "done"
    /\ UNCHANGED <<is_enabled, job_added, task_type, crawl_task, waited_time,
                   result_status, disable_pc, disabled, runs>>
    /\ schedUnchanged

\* the handler: the run record and the scheduled task marked failed
SchedRecordFailure ==
    /\ trig_pc = "raised"
    /\ run_record' = "failed"
    /\ last_run_status' = "failed"
    /\ trig_pc' = "done"
    /\ UNCHANGED <<is_enabled, job_added, task_type, crawl_task, waited_time,
                   result_status, disable_pc, disabled, runs>>
    /\ schedUnchanged

\* disable_scheduled_task up to db.commit(): is_enabled = False
DisableCommit ==
    /\ disable_pc = "idle"
    /\ is_enabled
    /\ is_enabled' = FALSE
    /\ disable_pc' = "committed"
    /\ UNCHANGED <<job_added, task_type, run_record, last_run_status,
                   crawl_task, trig_pc, waited_time, result_status, disabled,
                   runs>>
    /\ schedUnchanged

\* disable_scheduled_task: the job removed from the scheduler; the call
\* returns
DisableReturn ==
    /\ disable_pc = "committed"
    /\ job_added' = FALSE
    /\ disabled' = TRUE
    /\ disable_pc' = "idle"
    /\ UNCHANGED <<is_enabled, task_type, run_record, last_run_status,
                   crawl_task, trig_pc, waited_time, result_status, runs>>
    /\ schedUnchanged

\* enable_scheduled_task on a disabled task, the scheduler running
EnableScheduledTask ==
    /\ disable_pc = "idle"
    /\ ~is_enabled
    /\ is_enabled' = TRUE
    /\ job_added' = TRUE
    /\ disabled' = FALSE
    /\ UNCHANGED <<task_type, run_record, last_run_status, crawl_task,
                   trig_pc, waited_time, result_status, disable_pc, runs>>
    /\ schedUnchanged

\* an enabled scheduled task of either type, its job in the scheduler
InitSchedule ==
    /\ ServiceIdle
    /\ RetryIdle
    /\ MergeIdle
    /\ MetaIdle
    /\ CleanIdle
    /\ CallbackIdle
    /\ LifeIdle
    /\ AttachIdle
    /\ CellIdle
    /\ is_enabled = TRUE
    /\ job_added = TRUE
    /\ task_type \in TaskTypes
    /\ trig_pc = "idle"
    /\ run_record = "none"
    /\ last_run_status = "none"
    /\ crawl_task = "none"
    /\ waited_time = 0
    /\ result_status = "none"
    /\ disable_pc = "idle"
    /\ disabled = FALSE
    /\ runs = 0

NextSchedule ==
    \/ TriggerFires
    \/ SchedEnabledCheck
    \/ SchedRunRecord
    \/ SchedCrawlStart
    \/ SchedBackup
    \/ SchedRaises
    \/ \E status \in {"completed", "failed", "cancelled", "paused"} :
           CrawlTaskEnds(status)
    \/ SchedWaitPoll
    \/ SchedCrawlResult
    \/ SchedRecordSuccess
    \/ SchedRecordFailure
    \/ DisableCommit
    \/ DisableReturn
    \/ EnableScheduledTask

SpecSchedule == InitSchedule /\ [][NextSchedule]_vars

\* C37: a run of a scheduled crawl is recorded with run status "completed"
\* and last_run_status "success" only if the crawl Task it started has
\* status "completed" when the wait ends.
C37_SuccessRecordedOnlyForCompletedCrawl ==
    [][(/\ task_type = "crawl_task"
        /\ trig_pc = "collected"
        /\ (run_record' = "completed" \/ last_run_status' = "success")) =>
           crawl_task = "completed"]_vars

\* the wait gave up on a crawl Task that is still running, and the run is
\* recorded as a success
C37_Witness_RunningCrawlRecordedAsSuccess ==
    /\ task_type = "crawl_task"
    /\ trig_pc = "done"
    /\ waited_time = MaxWaits
    /\ crawl_task = "running"
    /\ result_status = "running"
    /\ run_record = "completed"
    /\ last_run_status = "success"

\* C38: while disable_scheduled_task has returned and enable_scheduled_task
\* has not been called since, no run record is created and no crawl or
\* backup is started.
C38_NoExecutionBeginsWhileDisabled ==
    [][disabled =>
          /\ ~(trig_pc = "checked" /\ trig_pc' = "dispatch")
          /\ ~(trig_pc = "dispatch" /\ trig_pc' \in {"waiting", "collected"})]_vars

\* the disable returned while an execution had passed the is_enabled test,
\* and the execution went on to start its crawl
C38_Witness_CrawlStartedAfterDisable ==
    /\ disabled
    /\ ~is_enabled
    /\ ~job_added
    /\ runs = 1
    /\ trig_pc = "waiting"
    /\ run_record = "running"
    /\ crawl_task = "running"

(* ==== api_client.py: the label rows and value rows of _extract_metadata ==== *)
\* spans in a row of the label block
MaxCells == 2

\* the texts of a row's spans that the comprehension `[... if text]` keeps;
\* blank is the empty text of the row's kind
RowTexts(cells, blank) == SelectSeq(cells, LAMBDA text : text # blank)

\* the rows of the part g as the loop sees them
labels_of(g) == RowTexts(label_cells[g], {})

values_of(g) == RowTexts(value_cells[g], <<>>)

\* one iteration of `for i, label in enumerate(labels)`: with
\* `i < len(values)` the pair label, values[i] goes through the chain
ColumnPair ==
    /\ ex_pc \in {"group1", "group2"}
    /\ n_pairs < Len(labels_of(ex_pc))
    /\ LET i == n_pairs + 1
       IN  IF i <= Len(values_of(ex_pc))
           THEN /\ md' = ApplyPair(ex_pc, md, labels_of(ex_pc)[i],
                                   values_of(ex_pc)[i])
                /\ last_pair' = <<labels_of(ex_pc)[i], values_of(ex_pc)[i]>>
           ELSE /\ md' = md
                /\ last_pair' = <<>>
    /\ n_pairs' = n_pairs + 1
    /\ UNCHANGED <<ex_pc, row_pub_date>>
    /\ metaUnchanged

\* the loop over the first pair of rows is over: the second pair follows
ColumnsNextGroup ==
    /\ ex_pc = "group1"
    /\ n_pairs = Len(labels_of("group1"))
    /\ ex_pc' = "group2"
    /\ n_pairs' = 0
    /\ last_pair' = <<>>
    /\ UNCHANGED <<md, row_pub_date>>
    /\ metaUnchanged

\* the loop over the second pair of rows is over; the page has no table;
\* the fallback, `return metadata`
ColumnsFinish ==
    /\ ex_pc = "group2"
    /\ n_pairs = Len(labels_of("group2"))
    /\ md' = InferFromDocNumber(md)
    /\ ex_pc' = "done"
    /\ UNCHANGED <<n_pairs, row_pub_date, last_pair>>
    /\ metaUnchanged

\* the label cells of the two label rows, {} for an empty span
LabelCells ==
    [group1 |-> {{}, {"wenhao"}, {"fenlei"}},
     group2 |-> {{}, {"faburiqi", "fabu"}, {"shengxiaoriqi"}}]

\* the value cells, <<>> for an empty span
ValueCells == {<<>>, grade, dateCn}

\* a page whose four rows have MaxCells spans each
InitColumns ==
    /\ ServiceIdle
    /\ RetryIdle
    /\ MergeIdle
    /\ CleanIdle
    /\ CallbackIdle
    /\ LifeIdle
    /\ AttachIdle
    /\ SchedIdle
    /\ label_cells \in [group1 : [1..MaxCells -> LabelCells["group1"]],
                        group2 : [1..MaxCells -> LabelCells["group2"]]]
    /\ value_cells \in [group1 : [1..MaxCells -> ValueCells],
                        group2 : [1..MaxCells -> ValueCells]]
    /\ ex_pc = "group1"
    /\ n_pairs = 0
    /\ md = <<>>
    /\ row_pub_date = <<>>
    /\ last_pair = <<>>

NextColumns ==
    \/ ColumnPair
    \/ ColumnsNextGroup
    \/ ColumnsFinish

SpecColumns == InitColumns /\ [][NextColumns]_vars

\* C39: every label/value pair the loops of the label block process is a
\* label and the value of the span at the same position of the value row;
\* a label whose value span is empty gets no value.
C39_ValuePairedWithLabelAtSamePosition ==
    [][(n_pairs' = n_pairs + 1 /\ last_pair' # <<>>) =>
          \E p \in 1..MaxCells :
              /\ label_cells[ex_pc][p] = last_pair'[1]
              /\ value_cells[ex_pc][p] = last_pair'[2]]_vars

\* the document number's value span is empty and the category's value has
\* become the document number
C39_Witness_ValueShiftedOntoEarlierLabel ==
    /\ label_cells["group1"] = <<{"wenhao"}, {"fenlei"}>>
    /\ value_cells["group1"] = << <<>>, grade>>
    /\ ex_pc = "group2"
    /\ Get(md, "doc_number") = grade
    /\ Get(md, "category") = <<>>

====
